---- MODULE Spec2Model ----
(***************************************************************************)
(* Plan-execute-review orchestrator of rawg-agent (agent/orchestrator.ts): *)
(* one query, run either by runAgent ("sync") or by runAgentStreaming      *)
(* ("stream").  The language model and the RAWG data source are            *)
(* collaborators whose answers are chosen nondeterministically.            *)
(***************************************************************************)
EXTENDS Integers, Sequences, FiniteSets, TLC

(* Longest action list the language model hands back in the model. *)
MaxActions == 2

-----------------------------------------------------------------------------
(* Plans: ExecutionPlan / PlanAction *)

Ids == {"a", "b"}

NoGroups == <<>>

FetchAction(id) ==
  [action |-> "fetch", id |-> id, operation |-> "", source |-> "", hasGroups |-> FALSE,
   groups |-> NoGroups]

CalculateAction(id, source) ==
  [action |-> "calculate", id |-> id, operation |-> "average", source |-> source,
   hasGroups |-> FALSE, groups |-> NoGroups]

(* A calculate entry whose operation executeCalculation has no case for. *)
CalculateUnknownOperation(id, source) ==
  [action |-> "calculate", id |-> id, operation |-> "median", source |-> source,
   hasGroups |-> FALSE, groups |-> NoGroups]

(* A calculate entry as JSON.parse can deliver it: no operation member. *)
CalculateWithoutOperation(id, source) ==
  [action |-> "calculate", id |-> id, operation |-> "", source |-> source,
   hasGroups |-> FALSE, groups |-> NoGroups]

CompareAction(id, groups) ==
  [action |-> "compare", id |-> id, operation |-> "", source |-> "", hasGroups |-> TRUE,
   groups |-> groups]

(* A compare entry as JSON.parse can deliver it: the groups member is absent. *)
CompareWithoutGroups(id) ==
  [action |-> "compare", id |-> id, operation |-> "", source |-> "", hasGroups |-> FALSE,
   groups |-> NoGroups]

Group(name, source) == [name |-> name, source |-> source]

GroupLists == { <<Group("A", "a")>>, <<Group("A", "a"), Group("B", "b")>> }

WellFormedActions ==
  {FetchAction(id) : id \in Ids}
    \cup {CalculateAction(id, s) : id \in Ids, s \in Ids}
    \cup {CompareAction(id, g) : id \in Ids, g \in GroupLists}

MalformedActions == {CompareWithoutGroups("a"), CalculateUnknownOperation("b", "a")}

PlanActions == WellFormedActions \cup MalformedActions

ActionLists == UNION {[1..n -> PlanActions] : n \in 0..MaxActions}

(* The value JSON.parse yields for a plan: null, an object without an      *)
(* actions member, an object whose actions member is no array, or an       *)
(* object with an action list.                                             *)
NullPlan == [shape |-> "null", actions |-> <<>>]
PlanWithoutActions == [shape |-> "noActions", actions |-> <<>>]
PlanActionsNotArray == [shape |-> "notArray", actions |-> <<>>]
Plan(actions) == [shape |-> "array", actions |-> actions]

ParsedPlans ==
  {NullPlan, PlanWithoutActions, PlanActionsNotArray} \cup {Plan(a) : a \in ActionLists}

IsWellFormed(actions) == \A k \in DOMAIN actions : actions[k] \in WellFormedActions

-----------------------------------------------------------------------------
(* validatePlan *)

(* First pass: the Set of fetch ids, in insertion order. *)
RECURSIVE FetchActionIdList(_)
FetchActionIdList(actions) ==
  IF actions = <<>> THEN <<>>
  ELSE LET rest == FetchActionIdList(SubSeq(actions, 1, Len(actions) - 1))
           last == actions[Len(actions)]
       IN IF last.action = "fetch" /\ ~(\E k \in DOMAIN rest : rest[k] = last.id)
          THEN Append(rest, last.id)
          ELSE rest

SetHas(list, v) == \E k \in DOMAIN list : list[k] = v

RECURSIVE GroupErrors(_, _, _)
GroupErrors(action, groups, fetchIds) ==
  IF groups = <<>> THEN <<>>
  ELSE LET g == Head(groups)
           rest == GroupErrors(action, Tail(groups), fetchIds)
       IN IF ~SetHas(fetchIds, g.source)
          THEN <<[kind |-> "compare", id |-> action.id, group |-> g.name,
                  source |-> g.source, available |-> fetchIds]>> \o rest
          ELSE rest

(* Mutant of ActionErrors: the compare groups are not checked. *)
ActionErrorsCalculateOnly(action, fetchIds) ==
  IF action.action = "calculate" /\ ~SetHas(fetchIds, action.source)
  THEN <<[kind |-> "calculate", id |-> action.id, group |-> "",
          source |-> action.source, available |-> fetchIds]>>
  ELSE <<>>

(* The messages one action of the second pass pushes. *)
ActionErrors(action, fetchIds) ==
  IF action.action = "calculate"
  THEN IF ~SetHas(fetchIds, action.source)
       THEN <<[kind |-> "calculate", id |-> action.id, group |-> "",
               source |-> action.source, available |-> fetchIds]>>
       ELSE <<>>
  ELSE IF action.action = "compare"
       THEN GroupErrors(action, action.groups, fetchIds)
       ELSE <<>>

(* for (const group of action.groups) raises a TypeError when groups is absent. *)
ActionThrows(action) == action.action = "compare" /\ ~action.hasGroups

RECURSIVE SecondPass(_, _)
SecondPass(actions, fetchIds) ==
  IF actions = <<>> THEN <<>>
  ELSE ActionErrors(Head(actions), fetchIds) \o SecondPass(Tail(actions), fetchIds)

StructuralError ==
  <<[kind |-> "structure", id |-> "", group |-> "", source |-> "", available |-> <<>>]>>

(* Mutant of ValidatePlan: a plan in which two actions share an id is rejected. *)
ValidatePlanUniqueIds(plan) ==
  IF plan.shape # "array"
  THEN [threw |-> FALSE, valid |-> FALSE, errors |-> StructuralError]
  ELSE IF \E k \in DOMAIN plan.actions : ActionThrows(plan.actions[k])
       THEN [threw |-> TRUE, valid |-> FALSE, errors |-> <<>>]
       ELSE LET errors == SecondPass(plan.actions, FetchActionIdList(plan.actions))
                unique == \A k, j \in DOMAIN plan.actions :
                            plan.actions[k].id = plan.actions[j].id => k = j
            IN [threw |-> FALSE, valid |-> errors = <<>> /\ unique,
                errors |-> IF unique THEN errors ELSE Append(errors, StructuralError[1])]

(* Mutant of ValidatePlan: the second pass stops at the first violation. *)
ValidatePlanFirstErrorOnly(plan) ==
  IF plan.shape # "array"
  THEN [threw |-> FALSE, valid |-> FALSE, errors |-> StructuralError]
  ELSE IF \E k \in DOMAIN plan.actions : ActionThrows(plan.actions[k])
       THEN [threw |-> TRUE, valid |-> FALSE, errors |-> <<>>]
       ELSE LET errors == SecondPass(plan.actions, FetchActionIdList(plan.actions))
            IN [threw |-> FALSE, valid |-> errors = <<>>,
                errors |-> IF errors = <<>> THEN errors ELSE <<errors[1]>>]

ValidatePlan(plan) ==
  IF plan.shape # "array"
  THEN [threw |-> FALSE, valid |-> FALSE, errors |-> StructuralError]
  ELSE IF \E k \in DOMAIN plan.actions : ActionThrows(plan.actions[k])
       THEN [threw |-> TRUE, valid |-> FALSE, errors |-> <<>>]
       ELSE LET errors == SecondPass(plan.actions, FetchActionIdList(plan.actions))
            IN [threw |-> FALSE, valid |-> errors = <<>>, errors |-> errors]

-----------------------------------------------------------------------------
(* Language-model texts and their parsing *)

(* A response text, seen through the three extraction tiers: whether the   *)
(* whole text is JSON, whether a fenced block is present and parses,       *)
(* whether a {...} span is present and parses, and the value the JSON it   *)
(* holds denotes.                                                          *)
Text(whole, fenced, braced, value) ==
  [whole |-> whole, fenced |-> fenced, braced |-> braced, value |-> value]

DirectText(value) == Text("json", "none", "json", value)

WrappedShapes ==
  { <<"bad", "json", "json">>, <<"bad", "none", "json">>, <<"bad", "bad", "json">>,
    <<"bad", "bad", "bad">>, <<"bad", "none", "bad">>, <<"bad", "none", "none">> }

(* parseJsonResponse: null is NullPlan. *)
ParseJsonResponse(text) ==
  IF text.whole = "json" THEN text.value
  ELSE IF text.fenced # "none"
       THEN (IF text.fenced = "json" THEN text.value ELSE NullPlan)
       ELSE IF text.braced # "none"
            THEN (IF text.braced = "json" THEN text.value ELSE NullPlan)
            ELSE NullPlan

Review(satisfactory, reasoning, new_plan) ==
  [isNull |-> FALSE, satisfactory |-> satisfactory, reasoning |-> reasoning,
   new_plan |-> new_plan]

(* JSON null as a review: reading a member of it raises. *)
NullReview ==
  [isNull |-> TRUE, satisfactory |-> FALSE, reasoning |-> "", new_plan |-> NullPlan]

FallbackReview ==
  Review(TRUE, "Failed to parse review response, proceeding with current results.", NullPlan)

(* Mutant of ParseReviewResponse: null when no tier parses, as parseJsonResponse. *)
ParseReviewResponseOrNull(text) ==
  IF text.whole = "json" \/ text.fenced = "json" \/ text.braced = "json"
  THEN text.value
  ELSE NullReview

(* The parsing tail of reviewExecutionResults. *)
ParseReviewResponse(text) ==
  IF text.whole = "json" THEN text.value
  ELSE IF text.fenced = "json" THEN text.value
       ELSE IF text.braced = "json" THEN text.value
            ELSE FallbackReview

SamplePlan == Plan(<<FetchAction("a")>>)

PlanTexts ==
  {DirectText(p) : p \in ParsedPlans}
    \cup {Text(s[1], s[2], s[3], SamplePlan) : s \in WrappedShapes}

(* A plan whose calculate action names a source that no fetch has. *)
SampleBadPlan == Plan(<<CalculateAction("b", "a")>>)

(* Reviews: every parsed plan as the new_plan of an unsatisfactory review, *)
(* a present and an absent new_plan with a satisfactory one.               *)
ReviewValues ==
  {Review(FALSE, "lm", p) : p \in ParsedPlans}
    \cup {Review(TRUE, "lm", p) : p \in {NullPlan, SamplePlan, SampleBadPlan}}
    \cup {NullReview}

SampleReviews == {Review(TRUE, "lm", NullPlan), Review(FALSE, "lm", SamplePlan)}

ReviewTexts ==
  {DirectText(r) : r \in ReviewValues}
    \cup {Text(s[1], s[2], s[3], r) : s \in WrappedShapes, r \in SampleReviews}

-----------------------------------------------------------------------------
(* Result Store *)

EmptyStore == [k \in {} |-> 0]

Put(store, key, value) ==
  [k \in DOMAIN store \cup {key} |-> IF k = key THEN value ELSE store[k]]

WidgetKey(id) == id \o "_widget"

(* What identifies a payload: its kind, the executor run and the action   *)
(* that wrote it.                                                          *)
Ref(payload) == [kind |-> payload.kind, run |-> payload.run, by |-> payload.by]

Payload(kind, r, by, src) == [kind |-> kind, run |-> r, by |-> by, src |-> src]

(* Mutant of HasGames: any stored payload is taken as source data. *)
HasGamesAnyPayload(store, source) == source \in DOMAIN store

(* sourceData && sourceData.games: only a fetch result has a games member. *)
HasGames(store, source) == source \in DOMAIN store /\ store[source].kind = "fetch"

RECURSIVE GroupRefs(_, _)
GroupRefs(store, groups) ==
  IF groups = <<>> THEN <<>>
  ELSE <<Ref(store[Head(groups).source])>> \o GroupRefs(store, Tail(groups))

(* formatResultsForLLM: one section per action of the plan, rendered from  *)
(* results[action.id].                                                     *)
Undefined == Payload("undefined", 0, 0, <<>>)

FormatResultsForLLM(res, p) ==
  [k \in DOMAIN p.actions |->
     [action |-> p.actions[k].action, id |-> p.actions[k].id,
      value |-> IF p.actions[k].id \in DOMAIN res
                THEN Ref(res[p.actions[k].id]) ELSE Ref(Undefined)]]

-----------------------------------------------------------------------------
(* State of one query *)

VARIABLES
  variant,     \* "sync": runAgent, "stream": runAgentStreaming
  pc,          \* position in runAgent / runAgentStreaming
  plan,        \* let plan
  validation,  \* the last validatePlan call: its argument and its result
  run,         \* which executePlan call is or was last running (0: none yet)
  i,           \* executePlan: index of the current action
  ipc,         \* executePlan: "call" before the action's tool_call, "act" after it
  store,       \* executePlan: const results
  results,     \* let results of runAgent / runAgentStreaming
  review,      \* const review
  reviewText,  \* the reviewer's responseText
  lm,          \* the language-model request that is outstanding
  calls,       \* collaborator and validator calls made so far, in order
  events,      \* sync: the steps array; stream: what streamCallback received
  out,         \* sync: the returned AgentResponse
  cur,         \* two concurrent queries: the one that is running (0: a single query)
  other,       \* two concurrent queries: the locals of the suspended one
  fn,          \* a function studied on its own: which one is or was applied ("none": none)
  arg,         \* a function studied on its own: its input
  ret          \* a function studied on its own: what it returned

(* The locals of one runAgent / runAgentStreaming call. *)
qvars ==
  <<variant, pc, plan, validation, run, i, ipc, store, results, review, reviewText,
    lm, calls, events, out>>

(* What no step of a query touches. *)
aux == <<cur, other, fn, arg, ret>>

vars == <<qvars, aux>>

Step(type, name, act, msg) ==
  [ev |-> "step", type |-> type, name |-> name, act |-> act, msg |-> msg, errors |-> <<>>]

(* The 'Plan Validation Failed' step: details: { errors: validation.errors } *)
ValidationFailedStep(errors) ==
  [ev |-> "step", type |-> "error", name |-> "Plan Validation Failed", act |-> 0,
   msg |-> "", errors |-> errors]

(* A terminal streamCallback event: type 'answer' or 'error', with its text. *)
Terminal(ev, message) ==
  [ev |-> ev, type |-> "", name |-> message.kind, act |-> 0, msg |-> message.msg,
   errors |-> message.errors]

NoValidation ==
  [called |-> FALSE, of |-> NullPlan,
   result |-> [threw |-> FALSE, valid |-> FALSE, errors |-> <<>>]]

NoReview == [isNull |-> FALSE, satisfactory |-> TRUE, reasoning |-> "", new_plan |-> NullPlan]

NoText == Text("none", "none", "none", NoReview)

NoLM == [kind |-> "none", digest |-> <<>>]

LMRequest(kind, digest) == [kind |-> kind, digest |-> digest]

Message(kind, errors, msg) == [kind |-> kind, errors |-> errors, msg |-> msg]

(* Mutant of InvalidPlanMessage: only the first error is reported. *)
InvalidPlanMessageFirstOnly(errors) == Message("invalid", <<errors[1]>>, "")

(* `Sorry, I created an invalid plan. The issue is:\n${validation.errors.join('\n')}` *)
InvalidPlanMessage(errors) == Message("invalid", errors, "")

(* Mutant of NoPlan: only a null plan is refused. *)
NoPlanNullOnly(p) == p.shape = "null"

(* if (!plan || !plan.actions) *)
NoPlan(p) == p.shape \in {"null", "noActions"}

(* The texts the language model answers with. Two concurrent queries are  *)
(* studied on a few of them.                                               *)
PairPlanTexts ==
  {DirectText(p) : p \in {SamplePlan, SampleBadPlan, NullPlan,
                          Plan(<<FetchAction("a"), CalculateAction("b", "a")>>)}}

PairReviewTexts == {DirectText(r) : r \in SampleReviews}

(* Plans for the study of executePlan's store: a derived action with the  *)
(* id of a fetch and a later reader of that id, ids that end in '_widget'  *)
(* fetched before and after the id they extend, and a compare.             *)
StorePlans ==
  { Plan(<<FetchAction("a"), CalculateAction("a", "a"), CalculateAction("b", "a")>>),
    Plan(<<FetchAction("a"), FetchAction(WidgetKey("a")),
           CalculateAction("b", WidgetKey("a"))>>),
    Plan(<<FetchAction(WidgetKey("a")), FetchAction("a"),
           CalculateAction("b", WidgetKey("a"))>>),
    Plan(<<FetchAction("a"), FetchAction("b"),
           CompareAction("a", <<Group("A", "a"), Group("B", "b")>>),
           CalculateAction("b", "a")>>),
    Plan(<<FetchAction("a"), CalculateAction("b", "a")>>),
    Plan(<<FetchAction("a"), CalculateWithoutOperation("b", "a")>>) }

StorePlanTexts == {DirectText(p) : p \in StorePlans}

(* Texts for the comparison of runAgent with runAgentStreaming: one for    *)
(* every branch the two functions have.                                    *)
TwinPlanTexts ==
  PairPlanTexts
    \cup {DirectText(p) : p \in {PlanWithoutActions, PlanActionsNotArray,
                                 Plan(<<CompareWithoutGroups("a")>>),
                                 Plan(<<FetchAction("a"), FetchAction("b")>>),
                                 Plan(<<FetchAction("a"), CalculateUnknownOperation("b", "a")>>)}}
    \cup {Text("bad", "none", "none", SamplePlan)}

TwinReviewTexts ==
  PairReviewTexts
    \cup {DirectText(r) : r \in {Review(FALSE, "lm", SampleBadPlan),
                                 Review(FALSE, "lm", PlanWithoutActions),
                                 Review(FALSE, "lm", Plan(<<CompareWithoutGroups("a")>>)),
                                 Review(FALSE, "lm", NullPlan),
                                 NullReview}}
    \cup {Text("bad", "none", "none", Review(FALSE, "lm", SamplePlan))}

PlanInputs ==
  IF fn = "executePlan" THEN StorePlanTexts
  ELSE IF fn = "twin" THEN TwinPlanTexts
       ELSE IF cur = 0 THEN PlanTexts ELSE PairPlanTexts

ReviewInputs ==
  IF fn = "twin" THEN TwinReviewTexts
  ELSE IF cur = 0 /\ fn = "none" THEN ReviewTexts ELSE PairReviewTexts

QueryInit ==
  /\ variant \in {"sync", "stream"}
  /\ pc = "start"
  /\ plan = NullPlan
  /\ validation = NoValidation
  /\ run = 0
  /\ i = 0
  /\ ipc = "call"
  /\ store = EmptyStore
  /\ results = EmptyStore
  /\ review = NoReview
  /\ reviewText = NoText
  /\ lm = NoLM
  /\ calls = <<>>
  /\ events = <<>>
  /\ out = <<>>

Init ==
  /\ QueryInit
  /\ cur = 0
  /\ other = <<>>
  /\ fn = "none"
  /\ arg = <<>>
  /\ ret = <<>>

(* Mutant of Deliver: the terminal event is emitted ahead of the last steps. *)
DeliverTerminalFirst(steps, ev, message) ==
  /\ events' = IF variant = "sync" THEN events \o steps
               ELSE (events \o <<Terminal(ev, message)>>) \o steps
  /\ out' = IF variant = "sync" THEN <<message>> ELSE out
  /\ lm' = NoLM

(* The query ends: runAgent pushes the steps and returns the message,      *)
(* runAgentStreaming emits the steps and then one terminal event.          *)
Deliver(steps, ev, message) ==
  /\ events' = IF variant = "sync" THEN events \o steps
               ELSE (events \o steps) \o <<Terminal(ev, message)>>
  /\ out' = IF variant = "sync" THEN <<message>> ELSE out
  /\ lm' = NoLM

(* Mutant of Fail: the handler returns the error step alone. *)
FailDroppingSteps(msg) ==
  /\ events' = IF variant = "sync" THEN <<Step("error", "Error", 0, msg)>>
               ELSE <<Step("error", "Error", 0, msg),
                      Terminal("error", Message("generic", <<>>, msg))>>
  /\ out' = IF variant = "sync" THEN <<Message("generic", <<>>, msg)>> ELSE out
  /\ lm' = NoLM
  /\ pc' = "terminated"

(* catch (error) of runAgent / runAgentStreaming *)
Fail(msg) ==
  /\ Deliver(<<Step("error", "Error", 0, msg)>>, "error", Message("generic", <<>>, msg))
  /\ pc' = "terminated"

(* Enter answer generation: the 'Generating Answer' step and the request   *)
(* generateFinalAnswer sends.                                              *)
StartAnswer(steps, res, p, madeCalls) ==
  /\ events' = (events \o steps)
                 \o <<Step("generating_answer", "Generating Answer", 0, "")>>
  /\ lm' = LMRequest("answer", FormatResultsForLLM(res, p))
  /\ calls' = Append(madeCalls, "lm_answer")
  /\ pc' = "answering"

(* Mutant of Start: runAgent pushes the 'Creating Plan' step as well. *)
StartCreatingPlanInBoth ==
  /\ pc = "start"
  /\ events' = <<Step("thinking", "Analyzing Query", 0, ""),
                 Step("thinking", "Creating Plan", 0, "")>>
  /\ lm' = LMRequest("plan", <<>>)
  /\ calls' = Append(calls, "lm_plan")
  /\ pc' = "planning"
  /\ UNCHANGED aux
  /\ UNCHANGED <<variant, plan, validation, run, i, ipc, store, results, review,
                 reviewText, out>>

Start ==
  /\ pc = "start"
  /\ events' = IF variant = "sync"
               THEN <<Step("thinking", "Analyzing Query", 0, "")>>
               ELSE <<Step("thinking", "Analyzing Query", 0, ""),
                      Step("thinking", "Creating Plan", 0, "")>>
  /\ lm' = LMRequest("plan", <<>>)
  /\ calls' = Append(calls, "lm_plan")
  /\ pc' = "planning"
  /\ UNCHANGED aux
  /\ UNCHANGED <<variant, plan, validation, run, i, ipc, store, results, review,
                 reviewText, out>>

(* chat.sendMessage returns; parseJsonResponse; if (!plan || !plan.actions) *)
PlanReturn ==
  /\ pc = "planning"
  /\ \E text \in PlanInputs :
       LET p == ParseJsonResponse(text) IN
         /\ plan' = p
         /\ IF NoPlan(p)
            THEN /\ Deliver(<<Step("error", "Plan Generation Failed", 0, "")>>, "answer",
                            Message("rephrase", <<>>, ""))
                 /\ pc' = "terminated"
            ELSE /\ events' = Append(events, Step("plan", "Plan Created", 0, ""))
                 /\ lm' = NoLM
                 /\ out' = out
                 /\ pc' = "validating"
  /\ UNCHANGED aux
  /\ UNCHANGED <<variant, validation, run, i, ipc, store, results, review, reviewText,
                 calls>>

PlanFail ==
  /\ pc = "planning"
  /\ Fail("plan_lm_error")
  /\ UNCHANGED aux
  /\ UNCHANGED <<variant, plan, validation, run, i, ipc, store, results, review,
                 reviewText, calls>>

(* let validation = validatePlan(plan), and the first executePlan call *)
Validate ==
  /\ pc = "validating"
  /\ calls' = Append(calls, "validate")
  /\ LET v == ValidatePlan(plan) IN
       IF v.threw
       THEN /\ Fail("type_error")
            /\ UNCHANGED <<validation, run, i, ipc, store>>
       ELSE /\ validation' = [called |-> TRUE, of |-> plan, result |-> v]
            /\ IF ~v.valid
               THEN /\ Deliver(<<ValidationFailedStep(v.errors)>>, "error",
                               InvalidPlanMessage(v.errors))
                    /\ pc' = "terminated"
                    /\ UNCHANGED <<run, i, ipc, store>>
               ELSE /\ pc' = "executing"
                    /\ run' = 1
                    /\ i' = 1
                    /\ ipc' = "call"
                    /\ store' = EmptyStore
                    /\ UNCHANGED <<events, out, lm>>
  /\ UNCHANGED aux
  /\ UNCHANGED <<variant, plan, results, review, reviewText>>

-----------------------------------------------------------------------------
(* executePlan *)

CallName(action) ==
  IF action.action = "fetch" THEN "Fetching Game Data"
  ELSE IF action.action = "calculate" THEN "Running Calculation"
       ELSE "Comparing Groups"

ResultName(action) ==
  IF action.action = "fetch" THEN "Data Retrieved"
  ELSE IF action.action = "calculate" THEN "Calculation Complete"
       ELSE "Comparison Complete"

(* The source lookups of an action all find a fetch result. *)
SourcesFound(st, action) ==
  IF action.action = "calculate" THEN HasGames(st, action.source)
  ELSE IF action.action = "compare"
       THEN \A k \in DOMAIN action.groups : HasGames(st, action.groups[k].source)
       ELSE TRUE

(* Mutant of StoreResult: an id that already has a result keeps it. *)
StoreResultKeepingFirst(st, action, r, by) ==
  LET payload ==
        IF action.action = "fetch" THEN Payload("fetch", r, by, <<>>)
        ELSE IF action.action = "calculate"
             THEN Payload("number", r, by, <<Ref(st[action.source])>>)
             ELSE Payload("averages", r, by, GroupRefs(st, action.groups))
  IN IF action.id \in DOMAIN st THEN st
     ELSE Put(Put(st, action.id, payload), WidgetKey(action.id), Payload("widget", r, by, <<>>))

(* results[action.id] = ...; results[`${action.id}_widget`] = ... *)
StoreResult(st, action, r, by) ==
  LET payload ==
        IF action.action = "fetch" THEN Payload("fetch", r, by, <<>>)
        ELSE IF action.action = "calculate"
             THEN Payload("number", r, by, <<Ref(st[action.source])>>)
             ELSE Payload("averages", r, by, GroupRefs(st, action.groups))
  IN Put(Put(st, action.id, payload), WidgetKey(action.id), Payload("widget", r, by, <<>>))

(* Mutant of NewStore: the rerun writes into the previous run's results. *)
NewStoreKeepingOld(old) == old

(* The store a new executePlan call works on: const results = {}. *)
NewStore(old) == EmptyStore

(* Mutant of ExecCall: only a fetch announces itself with a tool_call. *)
ExecCallFetchOnly ==
  /\ pc = "executing"
  /\ ipc = "call"
  /\ i <= Len(plan.actions)
  /\ events' = IF plan.actions[i].action = "fetch"
               THEN Append(events, Step("tool_call", CallName(plan.actions[i]), i, ""))
               ELSE events
  /\ calls' = IF plan.actions[i].action = "fetch" THEN Append(calls, "fetch") ELSE calls
  /\ ipc' = "act"
  /\ UNCHANGED aux
  /\ UNCHANGED <<variant, pc, plan, validation, run, i, store, results, review,
                 reviewText, lm, out>>

(* Mutant of ExecCall: a fetch is issued together with the fetch after it. *)
ExecCallFetchingAhead ==
  /\ pc = "executing"
  /\ ipc = "call"
  /\ i <= Len(plan.actions)
  /\ events' = Append(events, Step("tool_call", CallName(plan.actions[i]), i, ""))
  /\ calls' = IF plan.actions[i].action = "fetch"
              THEN IF i < Len(plan.actions) /\ plan.actions[i + 1].action = "fetch"
                   THEN calls \o <<"fetch", "fetch">>
                   ELSE Append(calls, "fetch")
              ELSE calls
  /\ ipc' = "act"
  /\ UNCHANGED aux
  /\ UNCHANGED <<variant, pc, plan, validation, run, i, store, results, review,
                 reviewText, lm, out>>

(* The action's tool_call step; a fetch then calls fetchGameData. *)
ExecCall ==
  /\ pc = "executing"
  /\ ipc = "call"
  /\ i <= Len(plan.actions)
  /\ events' = Append(events, Step("tool_call", CallName(plan.actions[i]), i, ""))
  /\ calls' = IF plan.actions[i].action = "fetch" THEN Append(calls, "fetch") ELSE calls
  /\ ipc' = "act"
  /\ UNCHANGED aux
  /\ UNCHANGED <<variant, pc, plan, validation, run, i, store, results, review,
                 reviewText, lm, out>>

(* executeCalculation: default: throw new Error(`Unknown operation: ...`) *)
ComputeThrows(action) ==
  action.action = "calculate" /\ action.operation \notin {"average", "sum", "count", "min", "max"}

(* The action completes (the data source answered with a success status), *)
(* or its source lookup or its computation raises.                        *)
ExecResult ==
  /\ pc = "executing"
  /\ ipc = "act"
  /\ LET action == plan.actions[i] IN
       IF ~SourcesFound(store, action)
       THEN /\ Fail("source_not_found")
            /\ UNCHANGED <<store, i, ipc>>
       ELSE IF ComputeThrows(action)
            THEN /\ Fail("compute_error")
                 /\ UNCHANGED <<store, i, ipc>>
            ELSE /\ store' = StoreResult(store, action, run, i)
                 /\ events' = Append(events, Step("tool_result", ResultName(action), i, ""))
                 /\ i' = i + 1
                 /\ ipc' = "call"
                 /\ UNCHANGED <<pc, lm, out>>
  /\ UNCHANGED aux
  /\ UNCHANGED <<variant, plan, validation, run, results, review, reviewText, calls>>

(* Mutant of ExecFetchFail: the failure is logged and the loop goes on. *)
ExecFetchFailContinues ==
  /\ pc = "executing"
  /\ ipc = "act"
  /\ plan.actions[i].action = "fetch"
  /\ events' = Append(events, Step("error", "Error", 0, "rawg_error"))
  /\ i' = i + 1
  /\ ipc' = "call"
  /\ UNCHANGED aux
  /\ UNCHANGED <<variant, pc, plan, validation, run, store, results, review,
                 reviewText, lm, calls, out>>

(* Mutant of ExecFetchFail: a failed data-source call is issued again. *)
ExecFetchFailRetrying ==
  /\ pc = "executing"
  /\ ipc = "act"
  /\ plan.actions[i].action = "fetch"
  /\ ipc' = "call"
  /\ UNCHANGED aux
  /\ UNCHANGED <<variant, pc, plan, validation, run, i, store, results, review,
                 reviewText, lm, calls, events, out>>

(* fetchGameData: if (!response.ok) throw *)
ExecFetchFail ==
  /\ pc = "executing"
  /\ ipc = "act"
  /\ plan.actions[i].action = "fetch"
  /\ Fail("rawg_error")
  /\ UNCHANGED aux
  /\ UNCHANGED <<variant, plan, validation, run, i, ipc, store, results, review,
                 reviewText, calls>>

(* Mutant of ExecReturn: the first run's results go to the answer unreviewed. *)
ExecReturnSkipsReview ==
  /\ pc = "executing"
  /\ ipc = "call"
  /\ i > Len(plan.actions)
  /\ results' = store
  /\ StartAnswer(<<>>, store, plan, calls)
  /\ UNCHANGED aux
  /\ UNCHANGED <<variant, plan, validation, run, i, ipc, store, review, reviewText, out>>

(* Mutant of ExecReturn: every run's results are reviewed. *)
ExecReturnAlwaysReviews ==
  /\ pc = "executing"
  /\ ipc = "call"
  /\ i > Len(plan.actions)
  /\ results' = store
  /\ events' = Append(events, Step("thinking", "Reviewing Results", 0, ""))
  /\ lm' = LMRequest("review", FormatResultsForLLM(store, plan))
  /\ calls' = Append(calls, "lm_review")
  /\ pc' = "reviewing"
  /\ UNCHANGED aux
  /\ UNCHANGED <<variant, plan, validation, run, i, ipc, store, review, reviewText, out>>

(* return results: back in the orchestrator, which starts the review after *)
(* the first run and the answer after the second.                          *)
ExecReturn ==
  /\ pc = "executing"
  /\ ipc = "call"
  /\ i > Len(plan.actions)
  /\ results' = store
  /\ IF run = 1
     THEN /\ events' = Append(events, Step("thinking", "Reviewing Results", 0, ""))
          /\ lm' = LMRequest("review", FormatResultsForLLM(store, plan))
          /\ calls' = Append(calls, "lm_review")
          /\ pc' = "reviewing"
     ELSE StartAnswer(<<>>, store, plan, calls)
  /\ UNCHANGED aux
  /\ UNCHANGED <<variant, plan, validation, run, i, ipc, store, review, reviewText, out>>

-----------------------------------------------------------------------------
(* Review and replan *)

(* Mutant of NeedsRevision: a supplied new_plan is taken whatever the verdict. *)
NeedsRevisionIgnoringVerdict(r) == r.new_plan.shape # "null"

(* if (!review.satisfactory && review.new_plan): null and a missing member  *)
(* are both falsy.                                                         *)
NeedsRevision(r) == ~r.satisfactory /\ r.new_plan.shape # "null"

(* review.new_plan.actions && Array.isArray(review.new_plan.actions) *)
HasActionsArray(p) == p.shape = "array"

(* reviewExecutionResults returns, and the branch on its verdict *)
ReviewReturn ==
  /\ pc = "reviewing"
  /\ \E text \in ReviewInputs :
       LET r == ParseReviewResponse(text) IN
         /\ reviewText' = text
         /\ review' = r
         /\ IF r.isNull
            THEN /\ Fail("type_error")
                 /\ calls' = calls
            ELSE IF NeedsRevision(r)
                 THEN IF HasActionsArray(r.new_plan)
                      THEN /\ events' = Append(events,
                                          Step("review", "Plan Revision Needed", 0, ""))
                           /\ lm' = NoLM
                           /\ pc' = "revalidating"
                           /\ calls' = calls
                      ELSE StartAnswer(<<Step("review", "Plan Revision Needed", 0, ""),
                                         Step("error", "New Plan Missing Actions", 0, "")>>,
                                       results, plan, calls)
                 ELSE StartAnswer(<<Step("review", "Results Satisfactory", 0, "")>>,
                                  results, plan, calls)
         /\ IF r.isNull THEN TRUE ELSE out' = out
  /\ UNCHANGED aux
  /\ UNCHANGED <<variant, plan, validation, run, i, ipc, store, results>>

ReviewFail ==
  /\ pc = "reviewing"
  /\ Fail("review_lm_error")
  /\ UNCHANGED aux
  /\ UNCHANGED <<variant, plan, validation, run, i, ipc, store, results, review,
                 reviewText, calls>>

(* Mutant of Revalidate: the new plan becomes the plan before it is         *)
(* validated, so an invalid one is answered from with the first results.   *)
RevalidateAssigningFirst ==
  /\ pc = "revalidating"
  /\ LET v == ValidatePlan(review.new_plan) IN
       IF v.threw
       THEN /\ Fail("type_error")
            /\ calls' = Append(calls, "validate")
            /\ UNCHANGED <<plan, validation, run, i, ipc, store>>
       ELSE /\ validation' = [called |-> TRUE, of |-> review.new_plan, result |-> v]
            /\ plan' = review.new_plan
            /\ IF v.valid
               THEN /\ events' = Append(events, Step("plan", "New Plan Created", 0, ""))
                    /\ calls' = Append(calls, "validate")
                    /\ pc' = "executing"
                    /\ run' = 2
                    /\ i' = 1
                    /\ ipc' = "call"
                    /\ store' = NewStore(results)
                    /\ UNCHANGED <<lm, out>>
               ELSE /\ StartAnswer(<<Step("error", "New Plan Invalid", 0, "")>>,
                                   results, review.new_plan, Append(calls, "validate"))
                    /\ UNCHANGED <<run, i, ipc, store, out>>
  /\ UNCHANGED aux
  /\ UNCHANGED <<variant, results, review, reviewText>>

(* const newValidation = validatePlan(review.new_plan), and the second     *)
(* executePlan call                                                        *)
Revalidate ==
  /\ pc = "revalidating"
  /\ LET v == ValidatePlan(review.new_plan) IN
       IF v.threw
       THEN /\ Fail("type_error")
            /\ calls' = Append(calls, "validate")
            /\ UNCHANGED <<plan, validation, run, i, ipc, store>>
       ELSE /\ validation' = [called |-> TRUE, of |-> review.new_plan, result |-> v]
            /\ IF v.valid
               THEN /\ plan' = review.new_plan
                    /\ events' = Append(events, Step("plan", "New Plan Created", 0, ""))
                    /\ calls' = Append(calls, "validate")
                    /\ pc' = "executing"
                    /\ run' = 2
                    /\ i' = 1
                    /\ ipc' = "call"
                    /\ store' = NewStore(results)
                    /\ UNCHANGED <<lm, out>>
               ELSE /\ StartAnswer(<<Step("error", "New Plan Invalid", 0, "")>>,
                                   results, plan, Append(calls, "validate"))
                    /\ UNCHANGED <<plan, run, i, ipc, store, out>>
  /\ UNCHANGED aux
  /\ UNCHANGED <<variant, results, review, reviewText>>

(* generateFinalAnswer returns: the 'Final Answer' step and the answer *)
AnswerReturn ==
  /\ pc = "answering"
  /\ Deliver(<<Step("answer", "Final Answer", 0, "")>>, "answer", Message("final", <<>>, ""))
  /\ pc' = "done"
  /\ UNCHANGED aux
  /\ UNCHANGED <<variant, plan, validation, run, i, ipc, store, results, review,
                 reviewText, calls>>

AnswerFail ==
  /\ pc = "answering"
  /\ Fail("answer_lm_error")
  /\ UNCHANGED aux
  /\ UNCHANGED <<variant, plan, validation, run, i, ipc, store, results, review,
                 reviewText, calls>>

Next ==
  \/ Start
  \/ PlanReturn
  \/ PlanFail
  \/ Validate
  \/ ExecCall
  \/ ExecResult
  \/ ExecFetchFail
  \/ ExecReturn
  \/ ReviewReturn
  \/ ReviewFail
  \/ Revalidate
  \/ AnswerReturn
  \/ AnswerFail

Spec == Init /\ [][Next]_vars

-----------------------------------------------------------------------------
(* The store of executePlan under colliding ids *)

StoreInit ==
  /\ QueryInit
  /\ cur = 0
  /\ other = <<>>
  /\ fn = "executePlan"
  /\ arg = <<>>
  /\ ret = <<>>

StoreSpec == StoreInit /\ [][Next]_vars

(* One query on the texts that reach every branch. *)
LiveInit ==
  /\ QueryInit
  /\ cur = 0
  /\ other = <<>>
  /\ fn = "twin"
  /\ arg = <<>>
  /\ ret = <<>>

(* Every collaborator call returns or fails, and the function goes on. *)
LiveSpec == LiveInit /\ [][Next]_vars /\ WF_vars(Next)

-----------------------------------------------------------------------------
(* Two concurrent queries *)

(* The locals of the running query, as they are kept while it is suspended. *)
Locals ==
  [variant |-> variant, pc |-> pc, plan |-> plan, validation |-> validation, run |-> run,
   i |-> i, ipc |-> ipc, store |-> store, results |-> results, review |-> review,
   reviewText |-> reviewText, lm |-> lm, calls |-> calls, events |-> events, out |-> out]

(* The locals of a query that has not started. *)
FreshLocals(v) ==
  [variant |-> v, pc |-> "start", plan |-> NullPlan, validation |-> NoValidation, run |-> 0,
   i |-> 0, ipc |-> "call", store |-> EmptyStore, results |-> EmptyStore,
   review |-> NoReview, reviewText |-> NoText, lm |-> NoLM, calls |-> <<>>,
   events |-> <<>>, out |-> <<>>]

PairInit ==
  /\ QueryInit
  /\ cur = 1
  /\ other \in {FreshLocals(v) : v \in {"sync", "stream"}}
  /\ fn = "none"
  /\ arg = <<>>
  /\ ret = <<>>

(* Mutant of Switch: const results of executePlan is one object for both queries. *)
SwitchSharingStore ==
  /\ cur \in {1, 2}
  /\ cur' = 3 - cur
  /\ other' = Locals
  /\ variant' = other.variant
  /\ pc' = other.pc
  /\ plan' = other.plan
  /\ validation' = other.validation
  /\ run' = other.run
  /\ i' = other.i
  /\ ipc' = other.ipc
  /\ store' = store
  /\ results' = other.results
  /\ review' = other.review
  /\ reviewText' = other.reviewText
  /\ lm' = other.lm
  /\ calls' = other.calls
  /\ events' = other.events
  /\ out' = other.out
  /\ UNCHANGED <<fn, arg, ret>>

(* The running query is suspended at an await and the other one resumes:  *)
(* every piece of state is a local of the call it belongs to.             *)
Switch ==
  /\ cur \in {1, 2}
  /\ cur' = 3 - cur
  /\ other' = Locals
  /\ variant' = other.variant
  /\ pc' = other.pc
  /\ plan' = other.plan
  /\ validation' = other.validation
  /\ run' = other.run
  /\ i' = other.i
  /\ ipc' = other.ipc
  /\ store' = other.store
  /\ results' = other.results
  /\ review' = other.review
  /\ reviewText' = other.reviewText
  /\ lm' = other.lm
  /\ calls' = other.calls
  /\ events' = other.events
  /\ out' = other.out
  /\ UNCHANGED <<fn, arg, ret>>

PairNext ==
  \/ Next
  \/ Switch

PairSpec == PairInit /\ [][PairNext]_vars

-----------------------------------------------------------------------------
(* runAgent and runAgentStreaming on the same collaborator responses *)

(* What a query's locals hold apart from what it has emitted and returned. *)
Core(q) ==
  [pc |-> q.pc, plan |-> q.plan, validation |-> q.validation, run |-> q.run, i |-> q.i,
   ipc |-> q.ipc, store |-> q.store, results |-> q.results, review |-> q.review,
   reviewText |-> q.reviewText, lm |-> q.lm, calls |-> q.calls]

(* error.message of the exception a collaborator call ended with, "" if none did. *)
FailureMessage(q) ==
  IF \E k \in DOMAIN q.events : q.events[k].ev = "step" /\ q.events[k].name = "Error"
  THEN q.events[CHOOSE k \in DOMAIN q.events :
                  q.events[k].ev = "step" /\ q.events[k].name = "Error"].msg
  ELSE ""

(* The two queries have received the same responses so far. *)
Matched ==
  /\ Core(Locals) = Core(other)
  /\ FailureMessage(Locals) = FailureMessage(other)

(* Query 1 is a runAgent call, query 2 a runAgentStreaming call. *)
TwinInit ==
  /\ QueryInit
  /\ variant = "sync"
  /\ cur = 1
  /\ other = FreshLocals("stream")
  /\ fn = "twin"
  /\ arg = <<>>
  /\ ret = <<>>

(* runAgent takes its next step on some collaborator response. *)
Lead ==
  /\ cur = 1
  /\ Matched
  /\ Next

(* runAgentStreaming takes its next step on the same response. *)
Follow ==
  /\ cur = 2
  /\ ~Matched
  /\ Next
  /\ Matched'

(* The query that is behind, or the first one once both are level, resumes. *)
Hand ==
  /\ \/ cur = 1 /\ ~Matched
     \/ cur = 2 /\ Matched
  /\ Switch

TwinNext ==
  \/ Lead
  \/ Follow
  \/ Hand

TwinSpec == TwinInit /\ [][TwinNext]_vars

-----------------------------------------------------------------------------
(* The two response parsers on their own *)

(* Every way a text can look to the three tiers. When the whole text is   *)
(* JSON the later tiers are never consulted.                               *)
TextShapes ==
  WrappedShapes
    \cup { <<"json", "none", "json">>, <<"bad", "json", "bad">>, <<"bad", "json", "none">>,
           <<"bad", "bad", "none">> }

(* What the JSON inside a text can denote: plans, reviews, null. *)
JsonValues ==
  {SamplePlan, PlanWithoutActions, NullPlan} \cup SampleReviews

LMTexts == {Text(s[1], s[2], s[3], v) : s \in TextShapes, v \in JsonValues}

(* No query runs while a function is studied on its own. *)
StudyInit ==
  /\ QueryInit
  /\ variant = "sync"
  /\ cur = 0
  /\ other = <<>>
  /\ fn = "none"
  /\ ret = EmptyStore

ParserInit ==
  /\ StudyInit
  /\ arg \in LMTexts

(* parseJsonResponse(responseText) *)
ApplyParseJsonResponse ==
  /\ "parseJsonResponse" \notin DOMAIN ret
  /\ fn' = "parseJsonResponse"
  /\ ret' = Put(ret, "parseJsonResponse", ParseJsonResponse(arg))
  /\ UNCHANGED <<qvars, cur, other, arg>>

(* The parsing tail of reviewExecutionResults on the same text. *)
ApplyParseReviewResponse ==
  /\ "reviewExecutionResults" \notin DOMAIN ret
  /\ fn' = "reviewExecutionResults"
  /\ ret' = Put(ret, "reviewExecutionResults", ParseReviewResponse(arg))
  /\ UNCHANGED <<qvars, cur, other, arg>>

ParserNext ==
  \/ ApplyParseJsonResponse
  \/ ApplyParseReviewResponse

ParserSpec == ParserInit /\ [][ParserNext]_vars

-----------------------------------------------------------------------------
(* The compare action on data *)

(* Numbers are counted in hundredths, so that Math.round(x * 100) / 100 is *)
(* rounding to a whole number. Null stands for null and undefined.         *)
Null == -1

NaN == -2

(* n !== null && !isNaN(n) *)
IsValidNumber(n) == n # Null /\ n # NaN

(* A JavaScript object: its entries in own-property-key order. *)
HasKey(obj, key) == \E j \in DOMAIN obj : obj[j].key = key

Get(obj, key) == obj[CHOOSE j \in DOMAIN obj : obj[j].key = key].value

(* Keys that are canonical array indices, with their numeric value. *)
ArrayIndexKeys == {"1", "2"}

KeyIndex(key) == IF key = "1" THEN 1 ELSE 2

(* obj[key] = value: an existing key keeps its position; a new array-index *)
(* key goes among the array-index keys in ascending numeric order, ahead   *)
(* of every other key; any other new key goes last.                        *)
SetProperty(obj, key, value) ==
  LET entry == [key |-> key, value |-> value] IN
    IF HasKey(obj, key)
    THEN [j \in DOMAIN obj |-> IF obj[j].key = key THEN entry ELSE obj[j]]
    ELSE IF key \in ArrayIndexKeys
         THEN LET pos == Cardinality({j \in DOMAIN obj :
                             /\ obj[j].key \in ArrayIndexKeys
                             /\ KeyIndex(obj[j].key) < KeyIndex(key)})
              IN (SubSeq(obj, 1, pos) \o <<entry>>) \o SubSeq(obj, pos + 1, Len(obj))
         ELSE Append(obj, entry)

MaxGroups == 3

GroupNames == {"A", "B", "1"}

GroupFields == {"metacritic", "count"}

FieldGroup(name, source, field) == [name |-> name, source |-> source, field |-> field]

FieldGroups == {FieldGroup(n, src, f) : n \in GroupNames, src \in Ids, f \in GroupFields}

FieldGroupLists == UNION {[1..n -> FieldGroups] : n \in 1..MaxGroups}

(* What fetchGameData returned: count, and games as the values the        *)
(* records have in the compared field.                                     *)
FetchResult(count, games) == [count |-> count, games |-> games]

(* No record returned; an average of one and a half, which rounds to two;  *)
(* a record without the field, and a count equal to that rounded average.  *)
FetchResults ==
  { FetchResult(5, <<>>), FetchResult(3, <<1, 2>>), FetchResult(2, <<1, Null>>) }

DataStores == [Ids -> FetchResults]

(* Mutant of ExtractField: a record without the value counts as zero. *)
ExtractFieldInvalidAsZero(games) ==
  [k \in DOMAIN games |-> IF IsValidNumber(games[k]) THEN games[k] ELSE 0]

(* extractField *)
ExtractField(games) == SelectSeq(games, IsValidNumber)

(* Mutant of GroupValues: a count group counts the records returned. *)
GroupValuesCountingRecords(group, st) ==
  IF group.field = "count"
  THEN <<Len(st[group.source].games)>>
  ELSE ExtractField(st[group.source].games)

(* if (group.field === 'count') [sourceData.count] else extractField(...) *)
GroupValues(group, st) ==
  IF group.field = "count"
  THEN <<st[group.source].count>>
  ELSE ExtractField(st[group.source].games)

(* for (const group of action.groups) groupData[group.name] = ... *)
RECURSIVE GroupDataUpTo(_, _, _)
GroupDataUpTo(groups, st, k) ==
  IF k = 0 THEN <<>>
  ELSE SetProperty(GroupDataUpTo(groups, st, k - 1), groups[k].name,
                   GroupValues(groups[k], st))

GroupData(groups, st) == GroupDataUpTo(groups, st, Len(groups))

RECURSIVE Sum(_)
Sum(numbers) == IF numbers = <<>> THEN 0 ELSE Head(numbers) + Sum(Tail(numbers))

(* Math.round(avg * 100) / 100: halves round up. *)
RoundedAverage(numbers) == (2 * Sum(numbers) + Len(numbers)) \div (2 * Len(numbers))

(* for (const [key, values] of Object.entries(data)) ... averages[key] = *)
RECURSIVE AveragesUpTo(_, _)
AveragesUpTo(data, k) ==
  IF k = 0 THEN <<>>
  ELSE LET validNumbers == SelectSeq(data[k].value, IsValidNumber) IN
         IF Len(validNumbers) > 0
         THEN SetProperty(AveragesUpTo(data, k - 1), data[k].key,
                          RoundedAverage(validNumbers))
         ELSE AveragesUpTo(data, k - 1)

(* Mutant of WinnerUpTo: an equal average replaces the winner. *)
RECURSIVE WinnerUpToLastWins(_, _)
WinnerUpToLastWins(averages, k) ==
  IF k = 0 THEN [winner |-> "", highestAvg |-> 0, minusInfinity |-> TRUE]
  ELSE LET before == WinnerUpToLastWins(averages, k - 1) IN
         IF before.minusInfinity \/ averages[k].value >= before.highestAvg
         THEN [winner |-> averages[k].key, highestAvg |-> averages[k].value,
               minusInfinity |-> FALSE]
         ELSE before

(* let winner = ''; let highestAvg = -Infinity; for (...) if (avg > highestAvg) *)
RECURSIVE WinnerUpTo(_, _)
WinnerUpTo(averages, k) ==
  IF k = 0 THEN [winner |-> "", highestAvg |-> 0, minusInfinity |-> TRUE]
  ELSE LET before == WinnerUpTo(averages, k - 1) IN
         IF before.minusInfinity \/ averages[k].value > before.highestAvg
         THEN [winner |-> averages[k].key, highestAvg |-> averages[k].value,
               minusInfinity |-> FALSE]
         ELSE before

(* Mutant of ExecuteCompare: a group without a valid number averages to 0. *)
ExecuteCompareZeroForEmpty(data) ==
  LET averages ==
        [j \in DOMAIN data |->
           LET validNumbers == SelectSeq(data[j].value, IsValidNumber) IN
             [key |-> data[j].key,
              value |-> IF Len(validNumbers) > 0 THEN RoundedAverage(validNumbers) ELSE 0]]
  IN [result |-> averages, winner |-> WinnerUpTo(averages, Len(averages)).winner]

(* executeCalculation, case 'compare' *)
ExecuteCompare(data) ==
  LET averages == AveragesUpTo(data, Len(data)) IN
    [result |-> averages, winner |-> WinnerUpTo(averages, Len(averages)).winner]

CalcInit ==
  /\ StudyInit
  /\ arg \in {[groups |-> g, store |-> st] : g \in FieldGroupLists, st \in DataStores}

(* executePlan, case 'compare', once every source has been found *)
ApplyCompare ==
  /\ fn = "none"
  /\ LET groupData == GroupData(arg.groups, arg.store)
         compareResult == ExecuteCompare(groupData)
     IN /\ fn' = "compare"
        /\ ret' = Put(ret, "compare",
                      [groupData |-> groupData, result |-> compareResult.result,
                       winner |-> compareResult.winner])
  /\ UNCHANGED <<qvars, cur, other, arg>>

CalcNext == ApplyCompare

CalcSpec == CalcInit /\ [][CalcNext]_vars

-----------------------------------------------------------------------------
(* The calculate action on data *)

MaxLen == 3

(* What a list entry can be: invalid, values whose means need rounding,    *)
(* and the ratings 3 and 4.                                                *)
ListValues == {Null, NaN, 1, 2, 300, 400}

Lists == UNION {[1..n -> ListValues] : n \in 0..MaxLen}

Operations == {"average", "sum", "count", "min", "max", "median"}

(* CalculationOutput; formula and details are told apart by their wording  *)
(* and the number they quote.                                              *)
Output(result, formula, n) ==
  [threw |-> FALSE, result |-> result, formula |-> formula, n |-> n]

Thrown == [threw |-> TRUE, result |-> 0, formula |-> "", n |-> 0]

RECURSIVE MinOf(_)
MinOf(numbers) ==
  IF Len(numbers) = 1 THEN Head(numbers)
  ELSE LET rest == MinOf(Tail(numbers)) IN
         IF Head(numbers) < rest THEN Head(numbers) ELSE rest

RECURSIVE MaxOf(_)
MaxOf(numbers) ==
  IF Len(numbers) = 1 THEN Head(numbers)
  ELSE LET rest == MaxOf(Tail(numbers)) IN
         IF Head(numbers) > rest THEN Head(numbers) ELSE rest

(* case 'average' *)
CalcAverage(data) ==
  LET validNumbers == SelectSeq(data, IsValidNumber) IN
    IF Len(validNumbers) = 0
    THEN Output(0, "No valid numbers to average", 0)
    ELSE Output(RoundedAverage(validNumbers), "sum(n values) / n", Len(validNumbers))

(* case 'sum' *)
CalcSum(data) ==
  LET validNumbers == SelectSeq(data, IsValidNumber) IN
    Output(Sum(validNumbers), "sum(n values)", Len(validNumbers))

(* Mutant of CalcCount: only the valid entries are counted. *)
CalcCountValidOnly(data) ==
  Output(Len(SelectSeq(data, IsValidNumber)), "count(data)", Len(data))

(* case 'count': the result is a number of items, not a number in hundredths. *)
CalcCount(data) == Output(Len(data), "count(data)", Len(data))

(* Mutant of CalcMin: Math.min of no number is not guarded. *)
CalcMinUnguarded(data) ==
  LET validNumbers == SelectSeq(data, IsValidNumber) IN
    IF Len(validNumbers) = 0
    THEN Thrown
    ELSE Output(MinOf(validNumbers), "min(n values)", Len(validNumbers))

(* case 'min' *)
CalcMin(data) ==
  LET validNumbers == SelectSeq(data, IsValidNumber) IN
    IF Len(validNumbers) = 0
    THEN Output(0, "No valid numbers", 0)
    ELSE Output(MinOf(validNumbers), "min(n values)", Len(validNumbers))

(* case 'max' *)
CalcMax(data) ==
  LET validNumbers == SelectSeq(data, IsValidNumber) IN
    IF Len(validNumbers) = 0
    THEN Output(0, "No valid numbers", 0)
    ELSE Output(MaxOf(validNumbers), "max(n values)", Len(validNumbers))

(* executeCalculation on an array; the cases for grouped data and the      *)
(* default case throw.                                                     *)
ExecuteCalculation(operation, data) ==
  IF operation = "average" THEN CalcAverage(data)
  ELSE IF operation = "sum" THEN CalcSum(data)
  ELSE IF operation = "count" THEN CalcCount(data)
  ELSE IF operation = "min" THEN CalcMin(data)
  ELSE IF operation = "max" THEN CalcMax(data)
  ELSE Thrown

ListInit ==
  /\ StudyInit
  /\ arg \in {[operation |-> op, data |-> d] : op \in Operations, d \in Lists}

(* executeCalculation({ operation, data }) *)
ApplyExecuteCalculation ==
  /\ fn = "none"
  /\ fn' = "executeCalculation"
  /\ ret' = Put(ret, "executeCalculation", ExecuteCalculation(arg.operation, arg.data))
  /\ UNCHANGED <<qvars, cur, other, arg>>

(* Mutant of ApplyCalculate: the field values go to the compute call unfiltered. *)
ApplyCalculateUnfiltered ==
  /\ fn = "none"
  /\ fn' = "calculate"
  /\ ret' = Put(ret, "calculate", ExecuteCalculation(arg.operation, arg.data))
  /\ UNCHANGED <<qvars, cur, other, arg>>

(* executePlan, case 'calculate', on a source whose records have the      *)
(* values arg.data in the action's field:                                  *)
(* executeCalculation({ operation, data: extractField(games, field) })     *)
ApplyCalculate ==
  /\ fn = "none"
  /\ fn' = "calculate"
  /\ ret' = Put(ret, "calculate",
                ExecuteCalculation(arg.operation, ExtractField(arg.data)))
  /\ UNCHANGED <<qvars, cur, other, arg>>

ListNext ==
  \/ ApplyExecuteCalculation
  \/ ApplyCalculate

ListSpec == ListInit /\ [][ListNext]_vars

-----------------------------------------------------------------------------
(* fetchGameData on its own (src/tools/rawg.ts) *)

PLATFORMS == [pc |-> 4, ps5 |-> 187]

GENRES == [action |-> 4, rpg |-> 5]

(* The numbers the inputs below produce. *)
Numbers == {0, 2, 4, 5, 10, 40, 80, 90, 100, 187}

(* String(n), for these numbers. *)
NumStr(n) ==
  CASE n = 0 -> "0" [] n = 2 -> "2" [] n = 4 -> "4" [] n = 5 -> "5"
    [] n = 10 -> "10" [] n = 40 -> "40" [] n = 80 -> "80" [] n = 90 -> "90"
    [] n = 100 -> "100" [] n = 187 -> "187"

(* s.toLowerCase() *)
ToLowerCase(str) == CASE str = "PC" -> "pc" [] str = "RPG" -> "rpg" [] OTHER -> str

RECURSIVE Join(_)
(* ids.join(',') *)
Join(strs) ==
  IF strs = <<>> THEN ""
  ELSE IF Len(strs) = 1 THEN strs[1]
  ELSE strs[1] \o "," \o Join(Tail(strs))

(* Property names every object literal inherits from Object.prototype     *)
(* that are their own lower-case form, and String() of what they hold.    *)
InheritedKeys == {"constructor", "__proto__"}

InheritedText(key) ==
  IF key = "constructor" THEN "function Object() { [native code] }" ELSE "[object Object]"

(* const id = TABLE[key]; if (id) ids.push(id): the element join() will    *)
(* render, none when the lookup yields undefined.                          *)
Lookup(table, key) ==
  IF key \in DOMAIN table THEN <<NumStr(table[key])>>
  ELSE IF key \in InheritedKeys THEN <<InheritedText(key)>>
       ELSE <<>>

RECURSIVE MappedIds(_, _)
(* The loop of getPlatformIds / getGenreIds: names the table lacks are skipped. *)
MappedIds(table, names) ==
  IF names = <<>> THEN <<>>
  ELSE Lookup(table, ToLowerCase(Head(names))) \o MappedIds(table, Tail(names))

getPlatformIds(platforms) == Join(MappedIds(PLATFORMS, platforms))

getGenreIds(genres) == Join(MappedIds(GENRES, genres))

(* URLSearchParams.set(name, value): replaces the value of name, or appends. *)
ParamSet(params, name, value) ==
  IF \E j \in DOMAIN params : params[j].name = name
  THEN [j \in DOMAIN params |->
          IF params[j].name = name THEN [name |-> name, value |-> value] ELSE params[j]]
  ELSE Append(params, [name |-> name, value |-> value])

ParamSetIf(cond, params, name, value) ==
  IF cond THEN ParamSet(params, name, value) ELSE params

(* An input without any member; absent numbers are Null, absent strings "". *)
EmptyInput ==
  [ platforms |-> <<>>, genres |-> <<>>, date_from |-> "", date_to |-> "",
    metacritic_min |-> Null, metacritic_max |-> Null, page_size |-> Null,
    page |-> Null, ordering |-> "", search |-> "", search_exact |-> FALSE,
    tags |-> "", developers |-> "", publishers |-> "", exclude_additions |-> FALSE ]

ApiKeys == {"k1", "k2"}

(* Single members an input may carry; a search text may equal an API key. *)
InputChoices ==
  {<<"platforms", <<"PC">>>>, <<"platforms", <<"pc", "ps5">>>>, <<"platforms", <<"amiga">>>>,
   <<"platforms", <<"constructor">>>>,
   <<"genres", <<"rpg">>>>, <<"genres", <<"chess">>>>,
   <<"date_from", "2020-01-01">>, <<"date_to", "2020-12-31">>,
   <<"metacritic_min", 0>>, <<"metacritic_min", 80>>, <<"metacritic_max", 90>>,
   <<"page_size", 10>>, <<"page_size", 0>>, <<"page_size", 100>>, <<"page", 2>>,
   <<"ordering", "-rating">>, <<"search", "zelda">>, <<"search", "k1">>,
   <<"search_exact", TRUE>>, <<"tags", "co-op">>, <<"developers", "nintendo">>,
   <<"publishers", "sega">>, <<"exclude_additions", TRUE>>}

(* Inputs with at most two members set. *)
FetchInputs ==
  {[[EmptyInput EXCEPT ![c[1]] = c[2]] EXCEPT ![d[1]] = d[2]] :
     c \in InputChoices, d \in InputChoices}

(* The parameters of the request URL, in the order they are set. *)
BuildParams(input, apiKey) ==
  LET p1 == ParamSet(<<>>, "key", apiKey)
      p2 == ParamSet(p1, "page_size",
                     NumStr(IF input.page_size \in {Null, 0} THEN 40 ELSE input.page_size))
      p3 == ParamSetIf(input.page \notin {Null, 0}, p2, "page", NumStr(input.page))
      p4 == ParamSetIf(Len(input.platforms) > 0 /\ getPlatformIds(input.platforms) # "",
                       p3, "platforms", getPlatformIds(input.platforms))
      p5 == ParamSetIf(Len(input.genres) > 0 /\ getGenreIds(input.genres) # "",
                       p4, "genres", getGenreIds(input.genres))
      p6 == ParamSetIf(input.date_from # "" \/ input.date_to # "", p5, "dates",
                       (IF input.date_from # "" THEN input.date_from ELSE "1970-01-01")
                       \o "," \o
                       (IF input.date_to # "" THEN input.date_to ELSE "2099-12-31"))
      p7 == ParamSetIf(input.metacritic_min # Null \/ input.metacritic_max # Null,
                       p6, "metacritic",
                       NumStr(IF input.metacritic_min # Null THEN input.metacritic_min ELSE 0)
                       \o "," \o
                       NumStr(IF input.metacritic_max # Null THEN input.metacritic_max ELSE 100))
      p8 == ParamSetIf(input.ordering # "", p7, "ordering", input.ordering)
      p9 == ParamSetIf(input.search # "", p8, "search", input.search)
      p10 == ParamSetIf(input.search # "", p9, "search_precise", "true")
      p11 == ParamSetIf(input.search # "" /\ input.search_exact, p10, "search_exact", "true")
      p12 == ParamSetIf(input.tags # "", p11, "tags", input.tags)
      p13 == ParamSetIf(input.developers # "", p12, "developers", input.developers)
      p14 == ParamSetIf(input.publishers # "", p13, "publishers", input.publishers)
  IN ParamSetIf(input.exclude_additions, p14, "exclude_additions", "true")

(* Mutant of QueryParams: every parameter of the request is echoed. *)
QueryParamsEchoingAll(params) == params

(* params.forEach((value, key) => { if (key !== 'key') queryParams[key] = value }) *)
QueryParams(params) == SelectSeq(params, LAMBDA p : p.name # "key")

Responses == {[ok |-> TRUE, count |-> 5], [ok |-> TRUE, count |-> 0], [ok |-> FALSE, count |-> 0]}

FetchInit ==
  /\ StudyInit
  /\ arg \in [input : FetchInputs, apiKey : ApiKeys]

(* fetchGameData(input, apiKey), the response being ok *)
FetchReturns ==
  /\ fn = "none"
  /\ \E response \in Responses :
       /\ response.ok
       /\ ret' = Put(ret, "fetchGameData",
                     [ count |-> response.count,
                       query_params |-> QueryParams(BuildParams(arg.input, arg.apiKey)) ])
  /\ fn' = "fetchGameData"
  /\ UNCHANGED <<qvars, cur, other, arg>>

(* fetchGameData(input, apiKey), the response not being ok: it throws *)
FetchThrows ==
  /\ fn = "none"
  /\ \E response \in Responses : ~response.ok
  /\ fn' = "fetchGameData threw"
  /\ UNCHANGED <<qvars, cur, other, arg, ret>>

FetchNext ==
  \/ FetchReturns
  \/ FetchThrows

FetchSpec == FetchInit /\ [][FetchNext]_vars

-----------------------------------------------------------------------------
(* validatePlan on its own *)

MaxPlanLen == 3

PlansToValidate ==
  {NullPlan, PlanWithoutActions, PlanActionsNotArray}
    \cup {Plan(a) : a \in UNION {[1..n -> PlanActions] : n \in 0..MaxPlanLen}}

ValidateInit ==
  /\ StudyInit
  /\ arg \in PlansToValidate

(* validatePlan(plan) returns *)
ApplyValidatePlan ==
  /\ fn = "none"
  /\ ~ValidatePlan(arg).threw
  /\ fn' = "validatePlan"
  /\ ret' = Put(ret, "validatePlan", ValidatePlan(arg))
  /\ UNCHANGED <<qvars, cur, other, arg>>

(* validatePlan(plan) raises *)
ValidatePlanThrows ==
  /\ fn = "none"
  /\ ValidatePlan(arg).threw
  /\ fn' = "validatePlan threw"
  /\ UNCHANGED <<qvars, cur, other, arg, ret>>

ValidateNext ==
  \/ ApplyValidatePlan
  \/ ValidatePlanThrows

ValidateSpec == ValidateInit /\ [][ValidateNext]_vars

-----------------------------------------------------------------------------
(* Properties *)

Count(seq, v) == Cardinality({k \in DOMAIN seq : seq[k] = v})

StepNamed(name) == \E k \in DOMAIN events : events[k].ev = "step" /\ events[k].name = name

ErrorRaised(msg) ==
  \E k \in DOMAIN events : events[k].ev = "step" /\ events[k].name = "Error"
                           /\ events[k].msg = msg

FetchIdSet(actions) ==
  {actions[k].id : k \in {j \in DOMAIN actions : actions[j].action = "fetch"}}

AllSourcesAreFetchIds(actions) ==
  \A k \in DOMAIN actions :
    /\ actions[k].action = "calculate" => actions[k].source \in FetchIdSet(actions)
    /\ actions[k].action = "compare" =>
         \A g \in DOMAIN actions[k].groups :
           actions[k].groups[g].source \in FetchIdSet(actions)

(* C1: whenever validatePlan has been applied to a plan whose actions are  *)
(* well-formed fetch/calculate/compare actions, it answered valid=true     *)
(* exactly if every calculate source and every compare group source is the *)
(* id of some fetch action of that plan, wherever the fetch stands.        *)
C1_ValidIffSourcesAreFetchIds ==
  (validation.called /\ validation.of.shape = "array"
     /\ IsWellFormed(validation.of.actions))
    => (validation.result.valid <=> AllSourcesAreFetchIds(validation.of.actions))

(* A plan was accepted whose calculate action stands before the fetch it names. *)
C1_Witness ==
  /\ validation.called
  /\ validation.result.valid
  /\ \E k, j \in DOMAIN validation.of.actions :
       /\ k < j
       /\ validation.of.actions[k].action = "calculate"
       /\ validation.of.actions[j].action = "fetch"
       /\ validation.of.actions[k].source = validation.of.actions[j].id

(* C2: no executePlan run raises the source-not-found error.  Every plan   *)
(* that runs was accepted by validatePlan, and a run that raises this      *)
(* error has seen no data-source call fail, since the first error ends it. *)
C2_SourceCheckUnreachable == ~ErrorRaised("source_not_found")

PhaseOf(p) ==
  IF p \in {"start", "planning"} THEN "Planning"
  ELSE IF p \in {"validating", "revalidating"} THEN "Validating"
  ELSE IF p = "executing" THEN "Executing"
  ELSE IF p = "reviewing" THEN "Reviewing"
  ELSE IF p = "answering" THEN "Answering"
  ELSE IF p = "done" THEN "Done"
  ELSE "Terminated"

(* The last step delivered is an error step. *)
EndsWithErrorStep(evs) ==
  \E k \in DOMAIN evs :
    /\ evs[k].ev = "step" /\ evs[k].type = "error"
    /\ \A j \in DOMAIN evs : j > k => evs[j].ev # "step"

(* One step of the query lifecycle: the phase changes only along the edges *)
(* of the lifecycle; Validating of the revised plan is the part of the     *)
(* replan decision that leads to Executing (valid) or Answering (invalid). *)
LifecycleStep ==
  LET from == PhaseOf(pc)
      to == PhaseOf(pc')
  IN /\ from = "Planning" => to \in {"Planning", "Validating", "Terminated"}
     /\ from = "Validating" =>
          /\ to \in {"Executing", "Answering", "Terminated"}
          /\ to = "Executing" =>
               validation'.called /\ validation'.result.valid /\ validation'.of = plan'
          /\ to = "Answering" =>
               run = 1 /\ validation'.called /\ ~validation'.result.valid
          /\ (run = 0 /\ ~ValidatePlan(plan).valid) => to = "Terminated"
     /\ from = "Executing" =>
          /\ to \in {"Executing", "Reviewing", "Answering", "Terminated"}
          /\ to = "Reviewing" => run = 1
          /\ to = "Answering" => run = 2
     /\ from = "Reviewing" => to \in {"Validating", "Answering", "Terminated"}
     /\ from = "Answering" => to \in {"Done", "Terminated"}
     /\ from \in {"Done", "Terminated"} => to = from
     /\ (to = "Terminated" /\ from # "Terminated") => EndsWithErrorStep(events')
     /\ pc' = "executing" =>
          validation'.called /\ validation'.result.valid /\ validation'.of = plan'

(* C3: every step of runAgent and runAgentStreaming follows the query      *)
(* lifecycle: Planning, Validating, then Terminated if the initial plan is *)
(* invalid, else Executing and Reviewing; a plan is in execution only      *)
(* after validatePlan accepted that very plan; Answering is entered from   *)
(* Reviewing, from the rejected validation of the revised plan or from the *)
(* revised plan's Executing; Done only from Answering; everything else is  *)
(* a step to Terminated that leaves an error step last.                    *)
C3_Lifecycle == [][LifecycleStep]_vars

(* A query went through the replan path to Done. *)
C3_Witness == pc = "done" /\ run = 2

Reviewed == reviewText # NoText

(* C4: at most one replan: the reviewer is called at most once, executePlan *)
(* at most twice, and once the second run has started the query only       *)
(* executes, answers or ends, with the revised plan staying the plan.      *)
C4_AtMostOneReplan ==
  /\ Count(calls, "lm_review") <= 1
  /\ run <= 2
  /\ Cardinality({k \in DOMAIN events : events[k].name \in {"Plan Created", "New Plan Created"}})
       <= 2
  /\ run = 2 =>
       /\ pc \in {"executing", "answering", "done", "terminated"}
       /\ lm.kind # "review"
       /\ plan = review.new_plan

(* The second run has completed and the answer was delivered. *)
C4_Witness == run = 2 /\ pc = "done" /\ Count(calls, "lm_review") = 1

(* The reviewer's verdict asks for a revision and carries a plan that has *)
(* an actions list and that validatePlan accepts.                          *)
ReplanCondition ==
  /\ ~review.isNull
  /\ ~review.satisfactory
  /\ review.new_plan.shape = "array"
  /\ ~ValidatePlan(review.new_plan).threw
  /\ ValidatePlan(review.new_plan).valid

AllFromRun(res, r) == \A k \in DOMAIN res : res[k].run = r

DigestFromRun(digest, r) == \A k \in DOMAIN digest : digest[k].value.run = r

ReplanAt ==
  IF \E k \in DOMAIN events : events[k].name = "New Plan Created"
  THEN CHOOSE k \in DOMAIN events : events[k].name = "New Plan Created"
  ELSE 0

IsToolEvent(e) == e.ev = "step" /\ e.type \in {"tool_call", "tool_result"}

(* C6: an executePlan run starts from an empty store and holds only what   *)
(* this run wrote; after a valid replan the results, and the digest the    *)
(* answer request is rendered from, hold only entries written by the       *)
(* second run.                                                             *)
C6_ReplanReplacesResultStore ==
  /\ pc = "executing" =>
       /\ AllFromRun(store, run)
       /\ (i = 1 /\ ipc = "call") => store = EmptyStore
  /\ (run = 2 /\ pc \in {"answering", "done"}) => AllFromRun(results, 2)
  /\ (run = 2 /\ lm.kind = "answer") =>
       /\ lm.digest = FormatResultsForLLM(results, plan)
       /\ DigestFromRun(lm.digest, 2)

(* Both runs stored results, and the answer request of the second is out. *)
C6_Witness ==
  /\ run = 2
  /\ lm.kind = "answer"
  /\ results # EmptyStore
  /\ \E k \in DOMAIN events : events[k].type = "tool_result" /\ k < ReplanAt

(* The reviewer supplied a new_plan object that is no valid plan. *)
NewPlanNotValid ==
  /\ Reviewed
  /\ ~review.isNull
  /\ ~review.satisfactory
  /\ review.new_plan.shape # "null"
  /\ ~ReplanCondition

(* C7: a new_plan that is not a valid plan (no actions list, a bad source  *)
(* reference or a malformed entry) is non-fatal: no rerun, an error step   *)
(* about the new plan, then Answering with the original plan and results;  *)
(* the query can only still fail in the answer call.                       *)
C7_InvalidNewPlanNonFatal ==
  (NewPlanNotValid /\ pc # "revalidating") =>
    /\ run = 1
    /\ StepNamed("New Plan Invalid") \/ StepNamed("New Plan Missing Actions")
    /\ StepNamed("Generating Answer")
    /\ pc \in {"answering", "done", "terminated"}
    /\ pc = "terminated" => ErrorRaised("answer_lm_error")
    /\ plan # review.new_plan
    /\ ValidatePlan(plan).valid
    /\ AllFromRun(results, 1)
    /\ lm.kind = "answer" => lm.digest = FormatResultsForLLM(results, plan)

(* C8: after satisfactory=false without a new_plan the step log records    *)
(* the revision verdict before Answering, and no run with satisfactory=    *)
(* false logs 'Results Satisfactory'.                                      *)
C8_UnsatisfactoryNeverLoggedSatisfactory ==
  (Reviewed /\ ~review.isNull /\ ~review.satisfactory) =>
    /\ ~StepNamed("Results Satisfactory")
    /\ pc \in {"answering", "done"} => StepNamed("Plan Revision Needed")

AllTiersFail(text) == text.whole # "json" /\ text.fenced # "json" /\ text.braced # "json"

(* C9: when no tier parses the reviewer's text, the review is the          *)
(* satisfactory fallback and the query goes on to Answering with the plan  *)
(* and results it has: no second validation, no rerun, and no termination  *)
(* other than by a failing answer call.                                    *)
C9_ReviewParseFailureDegrades ==
  (Reviewed /\ AllTiersFail(reviewText)) =>
    /\ review = FallbackReview
    /\ run = 1
    /\ Count(calls, "validate") = 1
    /\ plan = validation.of
    /\ AllFromRun(results, 1)
    /\ pc \in {"answering", "done", "terminated"}
    /\ pc = "terminated" => ErrorRaised("answer_lm_error")
    /\ StepNamed("Generating Answer")

(* An unparseable review text, in which a fenced block is present, was answered. *)
C9_Witness ==
  /\ Reviewed
  /\ AllTiersFail(reviewText)
  /\ reviewText.fenced = "bad"
  /\ pc = "done"

(* The tool events of the run that is or was last executing. *)
RunToolEvents == {k \in DOMAIN events : IsToolEvent(events[k]) /\ k > ReplanAt}

ActionFailures == {"rawg_error", "source_not_found", "compute_error"}

ActionRaised == \E m \in ActionFailures : ErrorRaised(m)

(* Position of the catch handler's 'Error' step, 0 if there is none. *)
ErrorAt ==
  IF \E k \in DOMAIN events : events[k].ev = "step" /\ events[k].name = "Error"
  THEN CHOOSE k \in DOMAIN events : events[k].ev = "step" /\ events[k].name = "Error"
  ELSE 0

(* Position in calls of the last validatePlan call, 0 if there is none. *)
LastValidate ==
  IF \E k \in DOMAIN calls : calls[k] = "validate"
  THEN CHOOSE k \in DOMAIN calls :
         calls[k] = "validate" /\ \A m \in DOMAIN calls : calls[m] = "validate" => m <= k
  ELSE 0

(* The query ended in Terminated(error) through the catch handler. *)
TerminatedByCatch ==
  /\ pc = "terminated"
  /\ lm = NoLM
  /\ IF variant = "sync"
     THEN /\ ErrorAt = Len(events)
          /\ Len(out) = 1
          /\ out[1].kind = "generic"
     ELSE /\ ErrorAt = Len(events) - 1
          /\ events[Len(events)].ev = "error"

(* C11: when action i of a plan raises (the data source answers with a     *)
(* non-success status, a source is missing, or the computation throws),    *)
(* action i has its tool_call and no tool_result, no tool event and no     *)
(* data-source call of a later action occurs, no review or answer call of  *)
(* the language model follows, and the query ends in Terminated(error).    *)
C11_FailFast ==
  ActionRaised =>
    /\ TerminatedByCatch
    /\ ErrorAt > 1
    /\ events[ErrorAt - 1].type = "tool_call"
    /\ events[ErrorAt - 1].act = i
    /\ \A k \in RunToolEvents : events[k].act <= i
    /\ \A k \in DOMAIN events : k > ErrorAt => ~IsToolEvent(events[k])
    /\ \A k \in DOMAIN calls : k > LastValidate => calls[k] = "fetch"
    /\ Cardinality({k \in DOMAIN calls : k > LastValidate})
         = Cardinality({k \in 1..i : plan.actions[k].action = "fetch"})
    /\ Count(calls, "lm_answer") = 0
    /\ Count(calls, "lm_review") = run - 1

(* The first action of a rerun two-action plan raised: the data source    *)
(* answered its fetch with a non-success status.                           *)
C11_Witness ==
  /\ ErrorRaised("rawg_error")
  /\ run = 2
  /\ i = 1
  /\ Len(plan.actions) = 2

(* What can be thrown inside the try block of runAgent. *)
Failures ==
  ActionFailures \cup {"plan_lm_error", "type_error", "review_lm_error", "answer_lm_error"}

(* runAgent returns here, having caught a failure. *)
CaughtFailure ==
  /\ variant = "sync"
  /\ pc # "terminated"
  /\ pc' = "terminated"
  /\ ErrorAt' # 0

(* C12: when a step of runAgent fails in the plan, execute, review or      *)
(* answer phase, runAgent returns: its answer is the plain-text            *)
(* explanation of the failure, and its steps are the steps accumulated     *)
(* before the failure, unchanged and in order, followed by exactly one     *)
(* step of kind error.                                                     *)
C12_FailureReturnsStepsAndOneError ==
  [][CaughtFailure =>
       /\ Len(events') = Len(events) + 1
       /\ SubSeq(events', 1, Len(events)) = events
       /\ events'[Len(events')].ev = "step"
       /\ events'[Len(events')].type = "error"
       /\ events'[Len(events')].msg \in Failures
       /\ out = <<>>
       /\ Len(out') = 1
       /\ out'[1] = Message("generic", <<>>, events'[Len(events')].msg)]_vars

(* runAgent returned after the answer call of a rerun query had failed. *)
C12_Witness ==
  /\ variant = "sync"
  /\ pc = "terminated"
  /\ run = 2
  /\ ErrorRaised("answer_lm_error")
  /\ Len(out) = 1

(* The plan call returned and its text was parsed. *)
PlanParsed == pc \notin {"start", "planning"} /\ ~ErrorRaised("plan_lm_error")

(* The last step of the query: in the streaming variant the terminal event *)
(* follows it.                                                             *)
LastStepAt == IF variant = "sync" THEN Len(events) ELSE Len(events) - 1

(* The text the user gets: what runAgent returned, or the terminal event   *)
(* streamCallback received.                                                *)
UserText ==
  IF variant = "sync"
  THEN [kind |-> out[1].kind, errors |-> out[1].errors]
  ELSE [kind |-> events[Len(events)].name, errors |-> events[Len(events)].errors]

(* C13: when the plan parser yields no plan (null, or a value without an   *)
(* actions member), the query is over: an error step is recorded, the      *)
(* message asking to rephrase is what the user gets (in the streaming      *)
(* variant as the terminal event), and validatePlan, the data source, the  *)
(* reviewer and the answer synthesis are never called.                     *)
C13_NoPlanIsTerminal ==
  (PlanParsed /\ plan.shape \in {"null", "noActions"}) =>
    /\ pc = "terminated"
    /\ lm = NoLM
    /\ calls = <<"lm_plan">>
    /\ validation = NoValidation
    /\ run = 0
    /\ \A k \in DOMAIN events : ~IsToolEvent(events[k])
    /\ LastStepAt >= 1
    /\ events[LastStepAt] = Step("error", "Plan Generation Failed", 0, "")
    /\ variant = "sync" => Len(out) = 1
    /\ variant = "stream" => events[Len(events)].ev = "answer"
    /\ UserText.kind = "rephrase"

(* The streaming variant parsed a plan text into a value without actions. *)
C13_Witness ==
  /\ PlanParsed
  /\ plan.shape = "noActions"
  /\ variant = "stream"
  /\ pc = "terminated"

(* validatePlan returned valid = false for the plan the planner produced. *)
InitialPlanInvalid ==
  /\ validation.called
  /\ run = 0
  /\ ~validation.result.valid

(* C14: when the initial plan fails validation the query is over: the data *)
(* source, the reviewer and the answer synthesis are never called, an      *)
(* error step carrying the validator's errors is recorded, and the text    *)
(* the user gets holds every error of the validator, in the validator's    *)
(* order.                                                                  *)
C14_InvalidInitialPlanIsTerminal ==
  InitialPlanInvalid =>
    /\ pc = "terminated"
    /\ lm = NoLM
    /\ calls = <<"lm_plan", "validate">>
    /\ \A k \in DOMAIN events : ~IsToolEvent(events[k])
    /\ validation.of = plan
    /\ validation.result = ValidatePlan(plan)
    /\ validation.result.errors # <<>>
    /\ LastStepAt >= 1
    /\ events[LastStepAt].type = "error"
    /\ events[LastStepAt].name = "Plan Validation Failed"
    /\ events[LastStepAt].errors = ValidatePlan(plan).errors
    /\ variant = "sync" => Len(out) = 1
    /\ variant = "stream" => events[Len(events)].ev = "error"
    /\ UserText = [kind |-> "invalid", errors |-> ValidatePlan(plan).errors]

(* The validator reported two errors for the initial plan. *)
C14_Witness ==
  /\ InitialPlanInvalid
  /\ Len(validation.result.errors) = 2
  /\ validation.result.errors[1] # validation.result.errors[2]
  /\ pc = "terminated"

(* The first of the three tiers that parses, in order; null if none does. *)
FirstSuccess(text) ==
  IF text.whole = "json" THEN text.value
  ELSE IF text.fenced = "json" THEN text.value
       ELSE IF text.braced = "json" THEN text.value
            ELSE NullPlan

(* C15: parseJsonResponse returns the first success of an ordered chain:   *)
(* the whole text parsed as JSON; else the parsed contents of a fenced     *)
(* block that is present and parses; else, whenever the second tier did    *)
(* not succeed (no fenced block, or one whose contents do not parse), the  *)
(* parsed first-'{'-to-last-'}' span if it parses; else null.              *)
C15_ParseJsonResponseIsFallbackChain ==
  "parseJsonResponse" \in DOMAIN ret => ret["parseJsonResponse"] = FirstSuccess(arg)

(* C16: the reviewer's parsing and parseJsonResponse implement the same    *)
(* three tiers: on every text the review parsing yields a parsed value     *)
(* exactly when parseJsonResponse returns non-null, and then both return   *)
(* the same value.                                                         *)
C16_ReviewParsingEqualsPlanParsing ==
  DOMAIN ret = {"parseJsonResponse", "reviewExecutionResults"} =>
    LET p == ret["parseJsonResponse"]
        r == ret["reviewExecutionResults"]
        reviewParsed == ~AllTiersFail(arg) /\ r # NullPlan
    IN /\ reviewParsed <=> p # NullPlan
       /\ reviewParsed => r = p

IsLMCall(c) == c \in {"lm_plan", "lm_review", "lm_answer"}

(* The language-model calls made so far, in order. *)
LMCalls == SelectSeq(calls, IsLMCall)

(* An executor run has emitted its first tool_call and not yet its last    *)
(* tool_result.                                                            *)
MidRun ==
  /\ pc = "executing"
  /\ RunToolEvents # {}
  /\ Cardinality(RunToolEvents) < 2 * Len(plan.actions)

(* This step calls the language model. *)
LMCallIssued ==
  /\ Len(calls') = Len(calls) + 1
  /\ IsLMCall(calls'[Len(calls')])

(* C17: the language model is called at most three times in a query, in    *)
(* the order plan generation, review, answer synthesis, and never between  *)
(* the first tool_call and the last tool_result of an executor run, the    *)
(* rerun after a replan included.                                          *)
C17_LMCallsOrderedAndOutsideRuns ==
  /\ [](/\ Len(LMCalls) <= 3
        /\ LMCalls = SubSeq(<<"lm_plan", "lm_review", "lm_answer">>, 1, Len(LMCalls))
        /\ MidRun => lm = NoLM)
  /\ [][LMCallIssued => (~MidRun /\ ~MidRun')]_vars

(* A query that replanned made its three calls and ended. *)
C17_Witness ==
  /\ LMCalls = <<"lm_plan", "lm_review", "lm_answer">>
  /\ run = 2
  /\ Cardinality(RunToolEvents) = 4
  /\ pc = "done"

(* The valid numbers of the k-th declared group of the compare studied. *)
OwnNumbers(k) == SelectSeq(GroupValues(arg.groups[k], arg.store), IsValidNumber)

(* The declared groups that have a number to average. *)
Averaged == {k \in DOMAIN arg.groups : Len(OwnNumbers(k)) > 0}

(* The first group, in declaration order, whose rounded average is the     *)
(* maximum.                                                                *)
FirstBest ==
  CHOOSE k \in Averaged :
    \A m \in Averaged :
      \/ RoundedAverage(OwnNumbers(m)) < RoundedAverage(OwnNumbers(k))
      \/ RoundedAverage(OwnNumbers(m)) = RoundedAverage(OwnNumbers(k)) /\ k <= m

DistinctNames == \A k, m \in DOMAIN arg.groups : k # m => arg.groups[k].name # arg.groups[m].name

(* C19: the winner of a compare is the first group in declaration order    *)
(* among the groups whose rounded average is the maximum; a later group    *)
(* with an equal average never replaces an earlier winner.                 *)
C19_WinnerIsFirstDeclaredMaximum ==
  (fn = "compare" /\ Averaged # {}) =>
    ret["compare"].winner = arg.groups[FirstBest].name

(* The k-th declared group has field 'count', and its data and its stored  *)
(* average are the totalCount of its source fetch.                         *)
CountGroupHoldsTotalCount(k) ==
  LET group == arg.groups[k]
      totalCount == arg.store[group.source].count
  IN group.field = "count" =>
       /\ HasKey(ret["compare"].groupData, group.name)
       /\ Get(ret["compare"].groupData, group.name) = <<totalCount>>
       /\ HasKey(ret["compare"].result, group.name)
       /\ Get(ret["compare"].result, group.name) = totalCount

(* No later group of the action has the name of the k-th. *)
LastOfItsName(k) ==
  \A m \in DOMAIN arg.groups : m > k => arg.groups[m].name # arg.groups[k].name

(* C20: for a compare group with field 'count' the group's data is the     *)
(* one-element list holding the totalCount of its source fetch, and the    *)
(* average stored for the group equals that totalCount, whatever records   *)
(* the fetch returned.                                                     *)
C20_CountGroupAverageIsTotalCount ==
  fn = "compare" => \A k \in DOMAIN arg.groups : CountGroupHoldsTotalCount(k)

(* C20, amended: the same for every count group whose name no later group  *)
(* of the action repeats (the data and the averages are keyed by name, so  *)
(* a later group of the same name replaces the earlier one).               *)
C20_LastNamedCountGroupAverageIsTotalCount ==
  fn = "compare" =>
    \A k \in DOMAIN arg.groups : LastOfItsName(k) => CountGroupHoldsTotalCount(k)

(* Two count groups, the first over a fetch that returned no record: the   *)
(* averages are the two totalCounts and the greater one wins.              *)
C20_Witness ==
  /\ fn = "compare"
  /\ arg.groups = <<FieldGroup("A", "a", "count"), FieldGroup("B", "b", "count")>>
  /\ arg.store["a"].games = <<>>
  /\ arg.store["b"].games # <<>>
  /\ arg.store["a"].count > arg.store["b"].count
  /\ ret["compare"].result
       = << [key |-> "A", value |-> arg.store["a"].count],
            [key |-> "B", value |-> arg.store["b"].count] >>
  /\ ret["compare"].winner = "A"

(* The locals of query q, running or suspended. *)
View(q) == IF cur = q THEN Locals ELSE other

(* C18: of two queries that run concurrently, interleaved at arbitrary     *)
(* suspension points, each one's plan, result store and step sequence      *)
(* change only by its own steps, and each one proceeds, whatever the other *)
(* does (a failure included), by the steps it takes when it runs alone     *)
(* with the same collaborator responses.                                   *)
C18_ConcurrentQueriesAreIsolated ==
  [][\A q \in {1, 2} :
       \/ View(q)' = View(q)
       \/ cur = q /\ cur' = q /\ Next]_vars

(* The second query is inside an executor run with a result in its store, *)
(* while the first, with another plan, has stored a result of its own and  *)
(* then ended in a failure.                                                *)
C18_Witness ==
  /\ cur = 2
  /\ pc = "executing"
  /\ DOMAIN store # {}
  /\ other.pc = "terminated"
  /\ DOMAIN other.store # {}
  /\ other.plan # plan

(* The entries of the list studied that are neither null nor NaN. *)
ValidEntries == SelectSeq(arg.data, LAMBDA n : n # Null /\ n # NaN)

(* C21: executeCalculation with operation average, min or max on a list    *)
(* without a valid number (empty, or null/NaN entries only) returns 0      *)
(* with a text saying so, and does not raise; sum returns 0 on it.         *)
C21_NoValidNumberGivesZero ==
  (fn = "executeCalculation" /\ ValidEntries = <<>>) =>
    LET output == ret["executeCalculation"] IN
      /\ arg.operation \in {"average", "min", "max"} =>
           /\ ~output.threw
           /\ output.result = 0
           /\ output.formula \in {"No valid numbers to average", "No valid numbers"}
      /\ arg.operation = "sum" => (~output.threw /\ output.result = 0)

(* min was applied to a list of two invalid entries. *)
C21_Witness ==
  /\ fn = "executeCalculation"
  /\ arg.operation = "min"
  /\ arg.data = <<Null, NaN>>
  /\ ret["executeCalculation"].result = 0

(* r is the mean of the numbers, rounded to a whole number, halves up. *)
IsRoundedMean(r, numbers) ==
  /\ 2 * Len(numbers) * r - Len(numbers) <= 2 * Sum(numbers)
  /\ 2 * Sum(numbers) < 2 * Len(numbers) * r + Len(numbers)

(* What the operation yields when computed over the valid entries only. *)
OverValidEntries(operation, result) ==
  LET valid == ValidEntries
      members == {valid[k] : k \in DOMAIN valid}
  IN IF operation = "sum" THEN result = Sum(valid)
     ELSE IF valid = <<>> THEN result = 0
     ELSE IF operation = "average" THEN IsRoundedMean(result, valid)
     ELSE IF operation = "min" THEN result \in members /\ \A m \in members : result <= m
     ELSE result \in members /\ \A m \in members : result >= m

C30_AverageOfValidFieldValues ==
  (fn = "calculate" /\ arg.operation = "average") =>
    LET output == ret["calculate"] IN
      /\ ~output.threw
      /\ ValidEntries = <<>> => output.result = 0
      /\ ValidEntries # <<>> => IsRoundedMean(output.result, ValidEntries)

(* Records with rating 4, 3 and null: the stored average is 3.5. *)
C30_Witness ==
  /\ fn = "calculate"
  /\ arg.operation = "average"
  /\ arg.data = <<400, 300, Null>>
  /\ ret["calculate"].result = 350

(* The sources the action names. *)
SourcesOf(action) ==
  IF action.action = "calculate" THEN {action.source}
  ELSE IF action.action = "compare"
       THEN {action.groups[k].source : k \in DOMAIN action.groups}
       ELSE {}

(* The current action is about to act and one of its sources maps to a     *)
(* payload that is not a fetch result.                                     *)
ReadsDerived ==
  /\ pc = "executing"
  /\ ipc = "act"
  /\ \E source \in SourcesOf(plan.actions[i]) :
       source \in DOMAIN store /\ store[source].kind # "fetch"

(* C23: in every executor run a calculate action and a compare group       *)
(* compute over a fetch result only: no output of a calculate or compare   *)
(* action is ever used as source data, also when a derived action has the  *)
(* id of a fetch action, and an action whose source maps to a payload that *)
(* is not a fetch result raises instead of computing.                      *)
C23_OnlyFetchResultsAreSources ==
  /\ [](\A key \in DOMAIN store :
          \A k \in DOMAIN store[key].src : store[key].src[k].kind = "fetch")
  /\ [][ReadsDerived =>
         /\ pc' = "terminated"
         /\ store' = store
         /\ events'[ErrorAt'].msg = "source_not_found"]_vars

(* A calculate with the id of a fetch replaced the fetch result, and the   *)
(* next action, which names that id as its source, raised.                 *)
C23_Witness ==
  /\ pc = "terminated"
  /\ ErrorRaised("source_not_found")
  /\ i = 3
  /\ plan.actions[2] = CalculateAction("a", "a")
  /\ plan.actions[3].source = "a"
  /\ store["a"].kind = "number"
  /\ store["a"].src[1].kind = "fetch"

(* The actions of the running plan that have completed in this run. *)
Executed == IF pc = "executing" THEN 1..(i - 1) ELSE {}

(* C29: the display snapshots are a mapping parallel to the result store,  *)
(* one entry per executed action id: every executed action id maps to a    *)
(* result that no snapshot has replaced, its snapshot is kept and no       *)
(* result has replaced it, and no action reads a snapshot as its source    *)
(* data, whatever the action ids are (ids ending in '_widget' included).   *)
C29_SnapshotsParallelToResults ==
  /\ \A k \in Executed :
       /\ plan.actions[k].id \in DOMAIN store
       /\ store[plan.actions[k].id].kind # "widget"
       /\ WidgetKey(plan.actions[k].id) \in DOMAIN store
       /\ store[WidgetKey(plan.actions[k].id)].kind = "widget"
  /\ (pc = "executing" /\ ipc = "act") =>
       \A source \in SourcesOf(plan.actions[i]) :
         source \in DOMAIN store => store[source].kind # "widget"

(* The echoed parameters that fetchGameData builds from input under apiKey. *)
EchoedUnder(input, apiKey) == QueryParams(BuildParams(input, apiKey))

(* C24: the query parameters a call of fetchGameData returns have no entry  *)
(* named 'key', and they are the ones the same input gives under every      *)
(* other API key.                                                           *)
C24_EchoedParamsWithoutApiKey ==
  "fetchGameData" \in DOMAIN ret =>
    /\ \A j \in DOMAIN ret["fetchGameData"].query_params :
         ret["fetchGameData"].query_params[j].name # "key"
    /\ \A apiKey \in ApiKeys :
         ret["fetchGameData"].query_params = EchoedUnder(arg.input, apiKey)

(* A call under key k1 whose search text is that very key returns the text *)
(* as its search parameter.                                                 *)
C24_Witness ==
  /\ "fetchGameData" \in DOMAIN ret
  /\ arg.apiKey = "k1"
  /\ arg.input.search = "k1"
  /\ arg.input.platforms = <<"PC">>
  /\ ret["fetchGameData"].query_params =
       << [name |-> "page_size", value |-> "40"], [name |-> "platforms", value |-> "4"],
          [name |-> "search", value |-> "k1"], [name |-> "search_precise", value |-> "true"] >>

(* The members the action interfaces require, as far as the model holds    *)
(* them: the operation of a calculate, the groups of a compare.            *)
HasRequiredMembers(action) ==
  /\ action.action = "calculate" => action.operation # ""
  /\ action.action = "compare" => action.hasGroups

(* C25: a plan with an action that lacks a required member is rejected by  *)
(* validation and is never executed.                                       *)
C25_RequiredMembersValidated ==
  /\ (validation.called
        /\ \E k \in DOMAIN validation.of.actions :
             ~HasRequiredMembers(validation.of.actions[k]))
       => ~validation.result.valid
  /\ pc = "executing" =>
       \A k \in DOMAIN plan.actions : HasRequiredMembers(plan.actions[k])

(* validatePlan has returned on a plan that has an action list. *)
Validated == "validatePlan" \in DOMAIN ret /\ arg.shape = "array"

SharedId(actions, k, j) == k # j /\ actions[k].id = actions[j].id

BadReferences(actions) ==
  {<<k, 0>> : k \in {j \in DOMAIN actions :
                       /\ actions[j].action = "calculate"
                       /\ actions[j].source \notin FetchIdSet(actions)}}
    \cup {kg \in (DOMAIN actions) \X (1..MaxGroups) :
            /\ actions[kg[1]].action = "compare"
            /\ kg[2] \in DOMAIN actions[kg[1]].groups
            /\ actions[kg[1]].groups[kg[2]].source \notin FetchIdSet(actions)}

(* The message is about reference ref: it names the action's id and the    *)
(* bad source, and lists each fetch id of the plan once.                   *)
MessageNames(message, actions, ref) ==
  /\ message.id = actions[ref[1]].id
  /\ message.source = (IF ref[2] = 0 THEN actions[ref[1]].source
                       ELSE actions[ref[1]].groups[ref[2]].source)
  /\ {message.available[k] : k \in DOMAIN message.available} = FetchIdSet(actions)
  /\ Len(message.available) = Cardinality(FetchIdSet(actions))

(* C28: validatePlan, on a plan with an action list, returns as many       *)
(* messages as there are calculate sources and compare group sources that  *)
(* are no fetch id, each message names the id of an offending action and   *)
(* lists the plan's fetch ids, and the call leaves the plan as it was.     *)
C28_AllViolationsReportedNothingRepaired ==
  /\ [](Validated =>
          /\ Len(ret["validatePlan"].errors) = Cardinality(BadReferences(arg.actions))
          /\ \A k \in DOMAIN ret["validatePlan"].errors :
               \E ref \in BadReferences(arg.actions) :
                 MessageNames(ret["validatePlan"].errors[k], arg.actions, ref)
          /\ \A ref \in BadReferences(arg.actions) :
               \E k \in DOMAIN ret["validatePlan"].errors :
                 MessageNames(ret["validatePlan"].errors[k], arg.actions, ref))
  /\ [][arg' = arg]_vars

(* Two messages for one plan: a calculate and the second group of a        *)
(* compare name b, which is no fetch id of the plan.                       *)
C28_Witness ==
  /\ Validated
  /\ arg.actions = <<FetchAction("a"), CalculateAction("a", "b"),
                     CompareAction("b", <<Group("A", "a"), Group("B", "b")>>)>>
  /\ Len(ret["validatePlan"].errors) = 2
  /\ ret["validatePlan"].errors[1].id = "a"
  /\ ret["validatePlan"].errors[2].id = "b"
  /\ ret["validatePlan"].errors[2].available = <<"a">>

(* The data-source calls issued so far that have neither returned (their   *)
(* tool_result is emitted right after) nor failed.                         *)
OutstandingFetches ==
  Count(calls, "fetch")
    - Cardinality({k \in DOMAIN events :
                     /\ events[k].ev = "step"
                     /\ \/ events[k].type = "tool_result" /\ events[k].name = "Data Retrieved"
                        \/ events[k].type = "error" /\ events[k].msg = "rawg_error"})

OutstandingLMCalls == IF lm.kind = "none" THEN 0 ELSE 1

(* This step calls the data source. *)
FetchIssued == Count(calls', "fetch") = Count(calls, "fetch") + 1

(* C27: at most one call to a collaborator (language model or data source) *)
(* is outstanding at any time, and the data-source call of an action other *)
(* than the first is issued only when the last event emitted before its    *)
(* tool_call is the tool_result of the action before it.                   *)
C27_OneCollaboratorCallAtATime ==
  /\ [](OutstandingFetches + OutstandingLMCalls \in {0, 1})
  /\ [][FetchIssued =>
         /\ OutstandingFetches + OutstandingLMCalls = 0
         /\ i > 1 =>
              /\ events[Len(events)].type = "tool_result"
              /\ events[Len(events)].act = i - 1
              /\ Len(events) > ReplanAt]_vars

(* The second of two independent fetches is outstanding, the first has     *)
(* returned.                                                               *)
C27_Witness ==
  /\ pc = "executing" /\ ipc = "act" /\ i = 2
  /\ plan.actions = <<FetchAction("a"), FetchAction("b")>>
  /\ OutstandingFetches = 1
  /\ "a" \in DOMAIN store

(* The keys of a JavaScript object. *)
Keys(obj) == {obj[j].key : j \in DOMAIN obj}

(* The groups handed to executeCalculation that hold a valid number. *)
GroupsWithNumbers(data) ==
  {data[j].key : j \in {m \in DOMAIN data : \E n \in DOMAIN data[m].value :
                                               IsValidNumber(data[m].value[n])}}

Echoed(name) ==
  LET params == ret["fetchGameData"].query_params IN
    IF \E j \in DOMAIN params : params[j].name = name
    THEN params[CHOOSE j \in DOMAIN params : params[j].name = name].value
    ELSE ""

RECURSIVE KnownIds(_, _)
(* The ids, as text, of the names that table lists, in the order of names. *)
KnownIds(table, names) ==
  IF names = <<>> THEN <<>>
  ELSE (IF ToLowerCase(Head(names)) \in DOMAIN table
        THEN <<NumStr(table[ToLowerCase(Head(names))])>> ELSE <<>>)
       \o KnownIds(table, Tail(names))

(* C32: the request of a fetchGameData call carries, as its platforms and  *)
(* genres filters, the ids of exactly the names the tables know, in input  *)
(* order and comma-separated; a list without a known name gives no filter. *)
C32_UnknownNamesDropped ==
  "fetchGameData" \in DOMAIN ret =>
    /\ Echoed("platforms") = Join(KnownIds(PLATFORMS, arg.input.platforms))
    /\ Echoed("genres") = Join(KnownIds(GENRES, arg.input.genres))

(* Results per page (max 40) *)
MaxPageSize == 40

(* C33: the page size a fetchGameData call asks for is at most 40, and it  *)
(* is 40 when the input gives none.                                        *)
C33_PageSizeAtMost40 ==
  "fetchGameData" \in DOMAIN ret =>
    /\ Echoed("page_size") \in {NumStr(n) : n \in {m \in Numbers : m <= MaxPageSize}}
    /\ arg.input.page_size = Null => Echoed("page_size") = "40"

(* C38: a calculate action with operation count stores the number of the   *)
(* source's records whose field value is not null, undefined or NaN, which *)
(* can be less than the number of records.                                 *)
C38_CountCountsValidFieldValues ==
  (fn = "calculate" /\ arg.operation = "count") =>
    /\ ~ret["calculate"].threw
    /\ ret["calculate"].result
         = Cardinality({k \in DOMAIN arg.data : arg.data[k] # Null /\ arg.data[k] # NaN})

(* Three records, one with a value: the count stored is 1. *)
C38_Witness ==
  /\ fn = "calculate"
  /\ arg.operation = "count"
  /\ arg.data = <<1, Null, NaN>>
  /\ ret["calculate"].result = 1

(* res is what a completed executor run number r on plan p leaves: every   *)
(* action id of p maps to a result that run r wrote, by an action of p     *)
(* that has this id.                                                       *)
OutputOfRunOn(res, p, r) ==
  \A k \in DOMAIN p.actions :
    /\ p.actions[k].id \in DOMAIN res
    /\ res[p.actions[k].id].run = r
    /\ res[p.actions[k].id].by \in DOMAIN p.actions
    /\ p.actions[res[p.actions[k].id].by].id = p.actions[k].id

(* C34: a digest for the reviewer or the synthesizer is rendered from the  *)
(* current plan and from results that are the output of the last completed *)
(* executor run, which ran on that plan; the plan changes only in the step *)
(* that starts the second run on it, and the results only when a run       *)
(* returns.                                                                *)
C34_DigestPlanAndResultsBelongTogether ==
  /\ [](lm.kind \in {"review", "answer"} =>
          /\ lm.digest = FormatResultsForLLM(results, plan)
          /\ OutputOfRunOn(results, plan, run)
          /\ AllFromRun(results, run))
  /\ [][/\ (run > 0 /\ plan' # plan) =>
            (run' = run + 1 /\ pc' = "executing" /\ i' = 1 /\ store' = EmptyStore)
        /\ results' # results =>
            (pc = "executing" /\ i > Len(plan.actions) /\ results' = store
             /\ plan' = plan)]_vars

(* After a new plan that did not validate, the answer request is rendered  *)
(* from the original plan and the first run's results.                     *)
C34_Witness ==
  /\ lm.kind = "answer"
  /\ run = 1
  /\ StepNamed("New Plan Invalid")
  /\ review.new_plan # plan
  /\ results # EmptyStore
  /\ lm.digest = FormatResultsForLLM(results, plan)

(* The steps among evs, by kind and name. *)
StepsOf(evs) ==
  LET steps == SelectSeq(evs, LAMBDA e : e.ev = "step")
  IN [k \in DOMAIN steps |-> [type |-> steps[k].type, name |-> steps[k].name]]

(* steps with the 'Creating Plan' step inserted after the first step. *)
WithCreatingPlan(steps) ==
  IF steps = <<>> THEN <<>>
  ELSE <<steps[1], [type |-> "thinking", name |-> "Creating Plan"]>> \o Tail(steps)

(* C37: whenever runAgent and runAgentStreaming have received the same      *)
(* collaborator responses, the steps runAgentStreaming has emitted are the  *)
(* steps runAgent has collected with one 'Creating Plan' thinking step      *)
(* after the first; once they end, the terminal event carries the text      *)
(* runAgent returns; and runAgentStreaming can take every response that     *)
(* runAgent took.                                                           *)
C37_StreamingStepsAreSyncStepsPlusCreatingPlan ==
  /\ (cur = 1 /\ Matched) =>
       /\ StepsOf(other.events) = WithCreatingPlan(StepsOf(events))
       /\ pc \in {"terminated", "done"} =>
            /\ Len(out) = 1
            /\ other.events[Len(other.events)].ev \in {"answer", "error"}
            /\ Message(other.events[Len(other.events)].name,
                       other.events[Len(other.events)].errors,
                       other.events[Len(other.events)].msg) = out[1]
  /\ (cur = 2 /\ ~Matched) => ENABLED Follow

(* Both variants have answered after a replan. *)
C37_Witness ==
  /\ cur = 1
  /\ Matched
  /\ pc = "done"
  /\ run = 2
  /\ variant = "sync"
  /\ other.variant = "stream"
  /\ Len(StepsOf(other.events)) = Len(StepsOf(events)) + 1
  /\ out = <<Message("final", <<>>, "")>>

(* The positions of the terminal events emitted. *)
TerminalEvents == {k \in DOMAIN events : events[k].ev # "step"}

(* C36: runAgentStreaming emits no terminal event while it runs and exactly *)
(* one, of type 'answer' or 'error', when it ends; that event is the last   *)
(* one, everything before it is a step, and a terminal event that carries   *)
(* the synthesized answer directly follows a step of kind answer.           *)
C36_OneTerminalEventLast ==
  variant = "stream" =>
    IF pc \in {"done", "terminated"}
    THEN /\ TerminalEvents = {Len(events)}
         /\ events[Len(events)].ev \in {"answer", "error"}
         /\ pc = "done" =>
              (events[Len(events)].ev = "answer" /\ events[Len(events)].name = "final")
         /\ (events[Len(events)].ev = "answer" /\ events[Len(events)].name = "final") =>
              /\ Len(events) > 1
              /\ events[Len(events) - 1].type = "answer"
              /\ events[Len(events) - 1].name = "Final Answer"
    ELSE TerminalEvents = {}

(* The streaming run has answered: steps, the answer step, the answer event. *)
C36_Witness ==
  /\ variant = "stream"
  /\ pc = "done"
  /\ events[Len(events)].ev = "answer"
  /\ events[Len(events) - 1].name = "Final Answer"
  /\ Len(events) >= 10

(* The query has ended: runAgent has returned, runAgentStreaming has        *)
(* emitted its terminal event.                                              *)
Returned ==
  IF variant = "sync" THEN Len(out) = 1
  ELSE events # <<>> /\ events[Len(events)].ev # "step"

(* The executePlan calls made so far: the first one, and one after every   *)
(* 'New Plan Created' step.                                                *)
ExecutorRuns ==
  (IF run >= 1 THEN 1 ELSE 0)
    + Cardinality({k \in DOMAIN events : events[k].name = "New Plan Created"})

(* The data-source calls of the current executePlan call. *)
FetchesOfRun ==
  LET last == CHOOSE k \in 0..Len(calls) :
                /\ k > 0 => calls[k] = "validate"
                /\ \A j \in (k + 1)..Len(calls) : calls[j] # "validate"
  IN Cardinality({j \in (last + 1)..Len(calls) : calls[j] = "fetch"})

(* C35: every query ends, runAgent by returning and runAgentStreaming by   *)
(* its terminal event, and until then each executePlan call has made at    *)
(* most as many data-source calls as its plan has actions and there have   *)
(* been at most two executePlan calls.                                     *)
C35_EveryQueryTerminates ==
  /\ <>[]Returned
  /\ [](FetchesOfRun <= Len(plan.actions) /\ run <= 2 /\ ExecutorRuns <= 2)

(* Ended after two executePlan calls, the second with a data-source call. *)
C35_Witness ==
  /\ Returned
  /\ pc = "done"
  /\ run = 2
  /\ ExecutorRuns = 2
  /\ FetchesOfRun = Len(plan.actions)
  /\ FetchesOfRun > 0

-----------------------------------------------------------------------------
(* Actions of one plan that share an id *)

(* The last of the given actions of plan p that has this id, 0 if none. *)
LastWithId(p, done, id) ==
  LET same == {k \in done : p.actions[k].id = id}
  IN IF same = {} THEN 0 ELSE CHOOSE k \in same : \A j \in same : j <= k

(* What kind of value an action leaves under its id. *)
ResultKind(action) ==
  IF action.action = "fetch" THEN "fetch"
  ELSE IF action.action = "calculate" THEN "number" ELSE "averages"

====
